---- MODULE Spec2Model ----
(***************************************************************************)
(* Geometric measurement and cross-section engine of the pipeline viewer:  *)
(*   CrossSectionPlane.js   (record -> centerline, plane intersections,    *)
(*                           leaders, grid)                                *)
(*   DistanceMeasurement.js (segment / triangle / mesh closest points)     *)
(*                                                                         *)
(* Numbers.  A JavaScript number is modelled as an exact extended          *)
(* rational <<n, d>>: d > 0 and gcd(n, d) = 1 for a finite value,          *)
(* <<1, 0>> = +Infinity, <<-1, 0>> = -Infinity, <<0, 0>> = NaN.            *)
(* Rounding of IEEE doubles and the sign of zero are not modelled: every   *)
(* zero divisor in the code modelled here is a sum of squares or a Gram    *)
(* determinant, i.e. +0.  A distance is carried as its square (sqrt is     *)
(* monotone, and sqrt(NaN) = NaN), so every comparison of two distances is *)
(* the comparison of their squares.                                        *)
(***************************************************************************)
EXTENDS Integers, Sequences, FiniteSets, TLC

VARIABLES
  record,        \* CoordinateMapper: the pipe record (objectData) being converted
  segment3,      \* CoordinateMapper: the derived centerline and radius
  segArgs,       \* getClosestPointsBetweenLineSegments: a1, a2, b1, b2
  segRet,        \* ... and what it returned
  triArgs,       \* getClosestPointToTriangle: point, v0, v1, v2
  triRet,        \* ... and what it returned
  meshArgs,      \* getClosestPointsBetweenMeshes: meshA, meshB
  meshRet,       \* ... and what it returned
  objects,       \* CrossSectionPlane.objectsRef.current
  depthLines,    \* CrossSectionPlane.depthLines
  depthLabels,   \* CrossSectionPlane.depthLabels
  crossSections, \* CrossSectionPlane.crossSections
  lastQuery,     \* the arguments of the last createCrossSection call
  scene,         \* the children CrossSectionPlane added to this.scene
  epoch,         \* the stamp of the objects of the current call (0 or 1)
  measure,       \* DistanceMeasurement: the fields of the instance
  measureScene,  \* the children DistanceMeasurement added to this.scene
  lineStamp,     \* the number of calculateDistance calls that drew lines
  sinceClear,    \* the stamps of the measurements completed since the last clear()
  heap,          \* the objects a query can reach: reference -> value
  frameRet,      \* the references a query returned
  view,          \* CrossSectionView: the component's state and the running handler
  scene3d        \* Scene3D: the refs and the React state

mapperVars == <<record, segment3>>
segVars    == <<segArgs, segRet>>
triVars    == <<triArgs, triRet>>
meshVars   == <<meshArgs, meshRet>>
planeVars  == <<objects, depthLines, depthLabels, crossSections, lastQuery, scene, epoch>>
measureVars == <<measure, measureScene, lineStamp, sinceClear>>
frameVars  == <<heap, frameRet>>
viewVars   == <<view>>
sceneVars  == <<scene3d>>
restVars   == <<frameVars, viewVars, sceneVars>>
vars       == <<record, segment3, segArgs, segRet, triArgs, triRet, meshArgs, meshRet,
                objects, depthLines, depthLabels, crossSections, lastQuery, scene, epoch,
                measure, measureScene, lineStamp, sinceClear, heap, frameRet, view,
                scene3d>>

-----------------------------------------------------------------------------
(* JavaScript numbers *)

Abs(i) == IF i < 0 THEN -i ELSE i
Sgn(i) == IF i < 0 THEN -1 ELSE IF i > 0 THEN 1 ELSE 0

RECURSIVE Gcd(_, _)
Gcd(a, b) == IF b = 0 THEN a ELSE Gcd(b, a % b)

Norm(n, d) ==
  IF d = 0 THEN <<Sgn(n), 0>>
  ELSE LET g == Gcd(Abs(n), Abs(d))
           s == IF d < 0 THEN -1 ELSE 1
       IN  <<(s * n) \div g, (s * d) \div g>>

NaN  == <<0, 0>>
PInf == <<1, 0>>
NInf == <<-1, 0>>
R(i) == <<i, 1>>
Q(n, d) == Norm(n, d)
Null == <<>>

IsNaN(x)    == x = NaN
IsFinite(x) == x[2] # 0

Neg(x) == <<-x[1], x[2]>>
Add(x, y) ==
  IF IsNaN(x) \/ IsNaN(y) THEN NaN
  ELSE IF x[2] = 0 /\ y[2] = 0 THEN (IF x = y THEN x ELSE NaN)
  ELSE IF x[2] = 0 THEN x
  ELSE IF y[2] = 0 THEN y
  ELSE Norm(x[1] * y[2] + y[1] * x[2], x[2] * y[2])
Sub(x, y) == Add(x, Neg(y))
Mul(x, y) == Norm(x[1] * y[1], x[2] * y[2])
Inv(x)    == Norm(x[2], x[1])
Div(x, y) == Mul(x, Inv(y))

\* x < y, x <= y, x > y, x >= y: false as soon as one side is NaN
Lt(x, y) ==
  /\ ~IsNaN(x) /\ ~IsNaN(y)
  /\ IF x[2] = 0 /\ y[2] = 0 THEN x[1] < y[1] ELSE x[1] * y[2] < y[1] * x[2]
Le(x, y) ==
  /\ ~IsNaN(x) /\ ~IsNaN(y)
  /\ IF x[2] = 0 /\ y[2] = 0 THEN x[1] <= y[1] ELSE x[1] * y[2] <= y[1] * x[2]
Gt(x, y) == Lt(y, x)
Ge(x, y) == Le(y, x)

MathMax(x, y) == IF IsNaN(x) \/ IsNaN(y) THEN NaN ELSE IF Lt(x, y) THEN y ELSE x
MathMin(x, y) == IF IsNaN(x) \/ IsNaN(y) THEN NaN ELSE IF Lt(y, x) THEN y ELSE x
MathAbs(x)    == <<Abs(x[1]), x[2]>>
\* Math.max(0, Math.min(1, x))
Clamp01(x) == MathMax(R(0), MathMin(R(1), x))

\* x <= Number.EPSILON (2^-52).  A positive number of the model is n/d with
\* d < 2^31, hence above 2^-52: within the model the test is x <= 0.
LeEpsilon(x) == Le(x, R(0))

-----------------------------------------------------------------------------
(* THREE.Vector3 *)

V3(x, y, z) == <<x, y, z>>
P3(i, j, k) == <<R(i), R(j), R(k)>>
VAdd(u, v)  == <<Add(u[1], v[1]), Add(u[2], v[2]), Add(u[3], v[3])>>
VSub(u, v)  == <<Sub(u[1], v[1]), Sub(u[2], v[2]), Sub(u[3], v[3])>>
VScale(u, k) == <<Mul(u[1], k), Mul(u[2], k), Mul(u[3], k)>>
Dot(u, v)   == Add(Add(Mul(u[1], v[1]), Mul(u[2], v[2])), Mul(u[3], v[3]))
\* the square of u.distanceTo(v)
DistSq(u, v) == Dot(VSub(u, v), VSub(u, v))
VHasNaN(u)  == IsNaN(u[1]) \/ IsNaN(u[2]) \/ IsNaN(u[3])

-----------------------------------------------------------------------------
(* CoordinateMapper: CrossSectionPlane.js, the conversion repeated at the  *)
(* head of drawClickedPipeCrossSection, drawVerticalLinesAtCrossSection-   *)
(* Plane and drawVerticalLinesAtDepth.                                     *)
(*                                                                         *)
(* A pipe record (objectData) is                                           *)
(*   [radius, start_point_depth, end_point_depth : Null or a number,       *)
(*    vertices : sequence of raw vertices <<v[0], v[1], v[2]>>]            *)
(* An attribute holds what Number(attribute) yields (NaN for a text that   *)
(* is no number) or Null when it is missing; a record without attributes   *)
(* is the record whose three attributes are Null, a record without         *)
(* geometry the record whose vertices are <<>>.                            *)

\* the bounds of the record domain
MaxRadiusHundredths == 7
MaxRadiusUnits == 2
MaxDepthCm == 1

\* let radius = (attributes?.radius != null) ? Number(attributes.radius) : 0.3;
\* if (radius > 5) radius = radius / 1000;  radius = Math.max(radius, 0.05);
\* (variant: the millimetre test taken as >= 5)
NormalizeRadiusGe5(attr) ==
  LET r0 == IF attr # Null THEN attr ELSE Q(3, 10)
      r1 == IF Ge(r0, R(5)) THEN Div(r0, R(1000)) ELSE r0
  IN  MathMax(r1, Q(1, 20))
NormalizeRadius(attr) ==
  LET r0 == IF attr # Null THEN attr ELSE Q(3, 10)
      r1 == IF Gt(r0, R(5)) THEN Div(r0, R(1000)) ELSE r0
  IN  MathMax(r1, Q(1, 20))

\* attributes && start_point_depth != null && end_point_depth != null &&
\* Number.isFinite(Number(start_point_depth)) && Number.isFinite(Number(end_point_depth))
HasDepthAttrs(objectData) ==
  /\ objectData.start_point_depth # Null
  /\ objectData.end_point_depth # Null
  /\ IsFinite(objectData.start_point_depth)
  /\ IsFinite(objectData.end_point_depth)

\* const startDepth = Number(start_point_depth / 100);
\* const startCenterY = startDepth >= 0 ? -(startDepth + radius) : startDepth;
\* (variant: the sign test taken as > 0)
CenterYStrict(depthAttr, radius) ==
  LET depth == Div(depthAttr, R(100))
  IN  IF Gt(depth, R(0)) THEN Neg(Add(depth, radius)) ELSE depth
CenterY(depthAttr, radius) ==
  LET depth == Div(depthAttr, R(100))
  IN  IF Ge(depth, R(0)) THEN Neg(Add(depth, radius)) ELSE depth

NoSegment == [ok |-> FALSE]

\* (variant: without depth attributes the raw vertex elevation is taken as
\* the centerline elevation, the radius not subtracted)
PipeSegmentRawElevation(objectData) ==
  LET vertices == objectData.vertices
  IN  IF Len(vertices) < 2 THEN NoSegment
      ELSE
        LET radius      == NormalizeRadius(objectData.radius)
            startVertex == vertices[1]
            endVertex   == vertices[Len(vertices)]
        IN  IF HasDepthAttrs(objectData)
            THEN [ok |-> TRUE, radius |-> radius,
                  start |-> V3(startVertex[2], CenterY(objectData.start_point_depth, radius), startVertex[1]),
                  end   |-> V3(endVertex[2], CenterY(objectData.end_point_depth, radius), endVertex[1])]
            ELSE [ok |-> TRUE, radius |-> radius,
                  start |-> V3(startVertex[2], startVertex[3], startVertex[1]),
                  end   |-> V3(endVertex[2], endVertex[3], endVertex[1])]

\* The centerline of a record: NoSegment when it has fewer than two vertices
\* (the early return), otherwise start, end and radius.  A raw vertex v gives
\* new THREE.Vector3(v[1], y, v[0]).
PipeSegment(objectData) ==
  LET vertices == objectData.vertices
  IN  IF Len(vertices) < 2 THEN NoSegment
      ELSE
        LET radius      == NormalizeRadius(objectData.radius)
            startVertex == vertices[1]
            endVertex   == vertices[Len(vertices)]
        IN  IF HasDepthAttrs(objectData)
            THEN [ok |-> TRUE, radius |-> radius,
                  start |-> V3(startVertex[2], CenterY(objectData.start_point_depth, radius), startVertex[1]),
                  end   |-> V3(endVertex[2], CenterY(objectData.end_point_depth, radius), endVertex[1])]
            ELSE [ok |-> TRUE, radius |-> radius,
                  start |-> V3(startVertex[2], Sub(startVertex[3], radius), startVertex[1]),
                  end   |-> V3(endVertex[2], Sub(endVertex[3], radius), endVertex[1])]

\* the record domain of the mapper specification
RadiusValues ==
  {Null, NaN, PInf, Q(1, 4), Q(3, 10), R(45), R(50), R(250), R(300)}
    \cup {Q(k, 100) : k \in -1 .. MaxRadiusHundredths}
    \cup {R(4 + k) : k \in 0 .. MaxRadiusUnits}
DepthValues ==
  {Null, NaN, R(-100), R(200), R(650), R(800)} \cup {R(k) : k \in -1 .. MaxDepthCm}
VertexLists ==
  { <<>>,
    <<P3(1, 2, -3)>>,
    <<P3(1, 2, -3), P3(4, 5, -6)>>,
    <<P3(1, 2, -3), P3(7, 8, -9), P3(4, 5, -6)>>,
    <<P3(0, 0, 0), P3(0, 1, 0)>> }
Records ==
  [radius : RadiusValues, start_point_depth : DepthValues,
   end_point_depth : DepthValues, vertices : VertexLists]

\* idle values of the variables a specification does not use
MapperIdle == record = Null /\ segment3 = <<>>
SegIdle    == segArgs = <<>> /\ segRet = <<>>
TriIdle    == triArgs = <<>> /\ triRet = <<>>
MeshIdle   == meshArgs = <<>> /\ meshRet = <<>>
PlaneIdle  == objects = <<>> /\ depthLines = <<>> /\ depthLabels = <<>>
                /\ crossSections = <<>> /\ lastQuery = <<>>
                /\ scene = {} /\ epoch = 0
MeasureIdle == measure = <<>> /\ measureScene = {} /\ lineStamp = 0 /\ sinceClear = <<>>
FrameIdle == heap = <<>> /\ frameRet = <<>>
ViewIdle == view = <<>>
SceneIdle == scene3d = <<>>
RestIdle == FrameIdle /\ ViewIdle /\ SceneIdle

InitMapper ==
  /\ record \in Records
  /\ segment3 = <<>>
  /\ SegIdle /\ TriIdle /\ MeshIdle /\ PlaneIdle /\ MeasureIdle /\ RestIdle

\* mapPipeToSegment(record): the conversion applied to the record
MapPipeToSegment ==
  /\ segment3 = <<>>
  /\ segment3' = <<PipeSegment(record)>>
  /\ UNCHANGED <<record, segVars, triVars, meshVars, planeVars, measureVars, restVars>>

NextMapper == MapPipeToSegment
SpecMapper == InitMapper /\ [][NextMapper]_vars

Mapped == Len(segment3) = 1 /\ segment3[1].ok

\* C1: with both depth attributes present and numeric, each endpoint's
\* centerline elevation is -(depth/100 + radius) when depth/100 >= 0 and
\* depth/100 itself when it is negative; start_point_depth = 650 with radius
\* 0.3 gives -6.8.
C1_DepthConvention ==
  (Mapped /\ HasDepthAttrs(record)) =>
    LET r  == segment3[1].radius
        ds == Div(record.start_point_depth, R(100))
        de == Div(record.end_point_depth, R(100))
    IN  /\ Ge(ds, R(0)) => segment3[1].start[2] = Neg(Add(ds, r))
        /\ Lt(ds, R(0)) => segment3[1].start[2] = ds
        /\ Ge(de, R(0)) => segment3[1].end[2] = Neg(Add(de, r))
        /\ Lt(de, R(0)) => segment3[1].end[2] = de
        /\ (record.start_point_depth = R(650) /\ record.radius = Q(3, 10))
             => segment3[1].start[2] = Q(-68, 10)
        /\ (record.end_point_depth = R(650) /\ record.radius = R(300))
             => segment3[1].end[2] = Q(-68, 10)

C1_Witness ==
  /\ Mapped
  /\ record.start_point_depth = R(650) /\ record.radius = Q(3, 10)
  /\ record.end_point_depth = R(-100)
  /\ segment3[1].start[2] = Q(-68, 10)
  /\ segment3[1].end[2] = R(-1)

-----------------------------------------------------------------------------
(* ClosestPointSolver: DistanceMeasurement.js                              *)

\* the points of the solver specifications: {0..MaxCoord}^3
MaxCoord == 1
\* the lattice on which the minimum is compared: parameters i/SampleDiv
SampleDiv == 2

Grid == {P3(i, j, k) : i \in 0 .. MaxCoord, j \in 0 .. MaxCoord, k \in 0 .. MaxCoord}
\* the end points of the segments: one step longer along x, so that a
\* segment can reach past the end of the other, and two levels of z
SegmentGrid == {P3(i, j, k) : i \in 0 .. MaxCoord + 1, j \in 0 .. MaxCoord, k \in 0 .. 1}

\* (variant: no second solve of s after t was clamped)
GetClosestPointsBetweenLineSegmentsNoResolve(a1, a2, b1, b2) ==
  LET d1 == VSub(a2, a1)
      d2 == VSub(b2, b1)
      r  == VSub(a1, b1)
      a  == Dot(d1, d1)
      e  == Dot(d2, d2)
      f  == Dot(d2, r)
      c  == Dot(d1, r)
      b  == Dot(d1, d2)
      denom == Sub(Mul(a, e), Mul(b, b))
      s0 == IF denom # R(0)
            THEN Clamp01(Div(Sub(Mul(b, f), Mul(c, e)), denom))
            ELSE R(0)
      st == IF LeEpsilon(a) /\ LeEpsilon(e) THEN <<R(0), R(0)>>
            ELSE IF LeEpsilon(a) THEN <<R(0), Clamp01(Div(f, e))>>
            ELSE IF LeEpsilon(e) THEN <<Clamp01(Div(Neg(c), a)), R(0)>>
            ELSE <<s0, Clamp01(Div(Add(Mul(b, s0), f), e))>>
  IN  [pointA |-> VAdd(a1, VScale(d1, st[1])),
       pointB |-> VAdd(b1, VScale(d2, st[2]))]

\* (variant: the general case taken also for a segment of length zero)
GetClosestPointsBetweenLineSegmentsNoPointCase(a1, a2, b1, b2) ==
  LET d1 == VSub(a2, a1)
      d2 == VSub(b2, b1)
      r  == VSub(a1, b1)
      a  == Dot(d1, d1)
      e  == Dot(d2, d2)
      f  == Dot(d2, r)
      c  == Dot(d1, r)
      b  == Dot(d1, d2)
      denom == Sub(Mul(a, e), Mul(b, b))
      s0 == IF denom # R(0)
            THEN Clamp01(Div(Sub(Mul(b, f), Mul(c, e)), denom))
            ELSE R(0)
      t0 == Div(Add(Mul(b, s0), f), e)
      st == IF Lt(t0, R(0)) THEN <<Clamp01(Div(Neg(c), a)), R(0)>>
            ELSE IF Gt(t0, R(1)) THEN <<Clamp01(Div(Sub(b, c), a)), R(1)>>
            ELSE <<s0, t0>>
  IN  [pointA |-> VAdd(a1, VScale(d1, st[1])),
       pointB |-> VAdd(b1, VScale(d2, st[2]))]

\* getClosestPointsBetweenLineSegments(a1, a2, b1, b2) -> {pointA, pointB}
GetClosestPointsBetweenLineSegments(a1, a2, b1, b2) ==
  LET d1 == VSub(a2, a1)
      d2 == VSub(b2, b1)
      r  == VSub(a1, b1)
      a  == Dot(d1, d1)
      e  == Dot(d2, d2)
      f  == Dot(d2, r)
      c  == Dot(d1, r)
      b  == Dot(d1, d2)
      denom == Sub(Mul(a, e), Mul(b, b))
      \* the general case: s from the unclamped solve, t from s, s again when
      \* t left [0, 1]
      s0 == IF denom # R(0)
            THEN Clamp01(Div(Sub(Mul(b, f), Mul(c, e)), denom))
            ELSE R(0)
      t0 == Div(Add(Mul(b, s0), f), e)
      general ==
        IF Lt(t0, R(0)) THEN <<Clamp01(Div(Neg(c), a)), R(0)>>
        ELSE IF Gt(t0, R(1)) THEN <<Clamp01(Div(Sub(b, c), a)), R(1)>>
        ELSE <<s0, t0>>
      st == IF LeEpsilon(a) /\ LeEpsilon(e) THEN <<R(0), R(0)>>
            ELSE IF LeEpsilon(a) THEN <<R(0), Clamp01(Div(f, e))>>
            ELSE IF LeEpsilon(e) THEN <<Clamp01(Div(Neg(c), a)), R(0)>>
            ELSE general
  IN  [pointA |-> VAdd(a1, VScale(d1, st[1])),
       pointB |-> VAdd(b1, VScale(d2, st[2]))]

\* The function reads a1 only through a2 - a1, a1 - b1 and the final
\* a1 + s * d1: the first endpoint is placed at the origin, the other three
\* range over the segment grid.
InitSegments ==
  /\ segArgs \in {P3(0, 0, 0)} \X SegmentGrid \X SegmentGrid \X SegmentGrid
  /\ segRet = <<>>
  /\ MapperIdle /\ TriIdle /\ MeshIdle /\ PlaneIdle /\ MeasureIdle /\ RestIdle

CallClosestPointsBetweenLineSegments ==
  /\ segRet = <<>>
  /\ segRet' = <<GetClosestPointsBetweenLineSegments(segArgs[1], segArgs[2], segArgs[3], segArgs[4])>>
  /\ UNCHANGED <<segArgs, mapperVars, triVars, meshVars, planeVars, measureVars, restVars>>

NextSegments == CallClosestPointsBetweenLineSegments
SpecSegments == InitSegments /\ [][NextSegments]_vars

\* p is the point u + k * (v - u) of the segment u-v for some k in [0, 1]
OnSegment(p, u, v) ==
  LET d == VSub(v, u)
      n == Dot(d, d)
  IN  IF n = R(0) THEN p = u
      ELSE LET k == Div(Dot(VSub(p, u), d), n)
           IN  Le(R(0), k) /\ Le(k, R(1)) /\ p = VAdd(u, VScale(d, k))

\* the parameter of p on the segment u-v (0 on a segment of length zero)
ParamOn(p, u, v) ==
  LET d == VSub(v, u)
      n == Dot(d, d)
  IN  IF n = R(0) THEN R(0) ELSE Div(Dot(VSub(p, u), d), n)

\* First-order optimality of (pA, pB) for the convex function
\* |a1 + s d1 - b1 - t d2|^2 on the square [0,1]^2: along each segment the
\* derivative vanishes inside, and points into the segment at an end.
KKT(pA, pB, a1, a2, b1, b2) ==
  LET d1 == VSub(a2, a1)
      d2 == VSub(b2, b1)
      w  == VSub(pA, pB)
      gs == Dot(d1, w)
      gt == Neg(Dot(d2, w))
      s  == ParamOn(pA, a1, a2)
      t  == ParamOn(pB, b1, b2)
  IN  /\ d1 # P3(0, 0, 0) =>
           /\ s = R(0) => Ge(gs, R(0))
           /\ s = R(1) => Le(gs, R(0))
           /\ (Gt(s, R(0)) /\ Lt(s, R(1))) => gs = R(0)
      /\ d2 # P3(0, 0, 0) =>
           /\ t = R(0) => Ge(gt, R(0))
           /\ t = R(1) => Le(gt, R(0))
           /\ (Gt(t, R(0)) /\ Lt(t, R(1))) => gt = R(0)

SegCalled == Len(segRet) = 1

\* C3: pointA lies on segment A and pointB on segment B (parameters within
\* [0,1]) and no pair of points of the two segments is nearer: the pair is
\* first-order optimal and no pair of lattice points of the segments is
\* nearer; two parallel horizontal segments of equal extent 1 apart give
\* distance 1 and witness points directly across.
C3_SegmentsMinimum ==
  SegCalled =>
    LET a1 == segArgs[1]
        a2 == segArgs[2]
        b1 == segArgs[3]
        b2 == segArgs[4]
        pA == segRet[1].pointA
        pB == segRet[1].pointB
        d1 == VSub(a2, a1)
        d2 == VSub(b2, b1)
    IN  /\ OnSegment(pA, a1, a2)
        /\ OnSegment(pB, b1, b2)
        /\ KKT(pA, pB, a1, a2, b1, b2)
        /\ \A i \in 0 .. SampleDiv, j \in 0 .. SampleDiv :
             Le(DistSq(pA, pB),
                DistSq(VAdd(a1, VScale(d1, Q(i, SampleDiv))),
                       VAdd(b1, VScale(d2, Q(j, SampleDiv)))))
        /\ ( /\ d1 = d2 /\ d1 # P3(0, 0, 0) /\ d1[2] = R(0)
             /\ Dot(VSub(b1, a1), d1) = R(0)
             /\ DistSq(a1, b1) = R(1) )
           => /\ DistSq(pA, pB) = R(1)
              /\ VSub(pB, pA) = VSub(b1, a1)

\* two skew face diagonals of the cube: the closest points are both mid-segment
C3_Witness ==
  /\ SegCalled
  /\ segArgs = <<P3(0, 0, 0), P3(1, 1, 0), P3(1, 0, 1), P3(0, 1, 1)>>
  /\ segRet[1].pointA = V3(Q(1, 2), Q(1, 2), R(0))
  /\ segRet[1].pointB = V3(Q(1, 2), Q(1, 2), R(1))

\* C4: the distance of the returned pair is the same when the two segments
\* are exchanged, parallel and zero-length segments included.
C4_SegmentsSymmetry ==
  SegCalled =>
    LET swapped == GetClosestPointsBetweenLineSegments(segArgs[3], segArgs[4], segArgs[1], segArgs[2])
    IN  DistSq(segRet[1].pointA, segRet[1].pointB) = DistSq(swapped.pointA, swapped.pointB)

\* a zero-length segment against a segment whose nearest point is interior
C4_Witness ==
  /\ SegCalled
  /\ segArgs = <<P3(0, 0, 0), P3(0, 0, 0), P3(1, 0, 0), P3(0, 1, 0)>>
  /\ segRet[1].pointB = V3(Q(1, 2), Q(1, 2), R(0))
  /\ DistSq(segRet[1].pointA, segRet[1].pointB) = Q(1, 2)
  /\ GetClosestPointsBetweenLineSegments(segArgs[3], segArgs[4], segArgs[1], segArgs[2]).pointA
       = V3(Q(1, 2), Q(1, 2), R(0))

\* the point of the segment u-v nearest to p
ClosestPointOnSegment(p, u, v) == VAdd(u, VScale(VSub(v, u), Clamp01(ParamOn(p, u, v))))

\* C18: when a segment has collapsed to a point (a1 = a2 or b1 = b2) nothing
\* is divided by its squared length zero: the result is made of numbers, it
\* is the collapsed point and the point of the other segment nearest to it,
\* and a1 and b1 when both have collapsed.
C18_CollapsedSegment ==
  (SegCalled /\ (segArgs[1] = segArgs[2] \/ segArgs[3] = segArgs[4])) =>
    /\ ~VHasNaN(segRet[1].pointA) /\ ~VHasNaN(segRet[1].pointB)
    /\ \A n \in 1 .. 3 : IsFinite(segRet[1].pointA[n]) /\ IsFinite(segRet[1].pointB[n])
    /\ segArgs[1] = segArgs[2] =>
         /\ segRet[1].pointA = segArgs[1]
         /\ segRet[1].pointB = ClosestPointOnSegment(segArgs[1], segArgs[3], segArgs[4])
    /\ segArgs[3] = segArgs[4] =>
         /\ segRet[1].pointB = segArgs[3]
         /\ segRet[1].pointA = ClosestPointOnSegment(segArgs[3], segArgs[1], segArgs[2])

\* the second segment collapsed to (1, 0, 0), nearest to the middle of the first
C18_Witness ==
  /\ SegCalled
  /\ segArgs = <<P3(0, 0, 0), P3(1, 1, 0), P3(1, 0, 0), P3(1, 0, 0)>>
  /\ segRet[1].pointA = V3(Q(1, 2), Q(1, 2), R(0))
  /\ segRet[1].pointB = P3(1, 0, 0)

-----------------------------------------------------------------------------
(* getClosestPointToTriangle(point, v0, v1, v2) -> {closestPoint, distance} *)
(* (distance is carried as its square, distanceSq)                          *)

GetClosestPointToTriangle(point, v0, v1, v2) ==
  LET edge0 == VSub(v1, v0)
      edge1 == VSub(v2, v0)
      v0ToPoint == VSub(point, v0)
      a == Dot(edge0, edge0)
      b == Dot(edge0, edge1)
      c == Dot(edge1, edge1)
      d == Dot(edge0, v0ToPoint)
      e == Dot(edge1, v0ToPoint)
      det == Sub(Mul(a, c), Mul(b, b))
      s0  == Sub(Mul(b, e), Mul(c, d))
      t0  == Sub(Mul(b, d), Mul(a, e))
      st ==
        IF Le(Add(s0, t0), det) THEN
          IF Lt(s0, R(0)) THEN
            IF Lt(t0, R(0)) THEN <<R(0), R(0)>>                          \* region 4
            ELSE <<R(0), Clamp01(Div(e, c))>>                            \* region 3
          ELSE IF Lt(t0, R(0)) THEN <<Clamp01(Div(d, a)), R(0)>>         \* region 5
          ELSE LET invDet == Div(R(1), det)                              \* region 0
               IN  <<Mul(s0, invDet), Mul(t0, invDet)>>
        ELSE
          IF Lt(s0, R(0)) THEN <<R(0), R(1)>>                            \* region 2
          ELSE IF Lt(t0, R(0)) THEN <<R(1), R(0)>>                       \* region 6
          ELSE LET numer == Sub(Sub(Add(c, e), b), d)                    \* region 1
                   denom == Add(Sub(a, Mul(R(2), b)), c)
                   s1    == Clamp01(Div(numer, denom))
               IN  <<s1, Sub(R(1), s1)>>
      closestPoint == VAdd(VAdd(v0, VScale(edge0, st[1])), VScale(edge1, st[2]))
  IN  [closestPoint |-> closestPoint, distanceSq |-> DistSq(point, closestPoint)]

InitTriangle ==
  /\ triArgs \in Grid \X Grid \X Grid \X Grid
  /\ triRet = <<>>
  /\ MapperIdle /\ SegIdle /\ MeshIdle /\ PlaneIdle /\ MeasureIdle /\ RestIdle

CallClosestPointToTriangle ==
  /\ triRet = <<>>
  /\ triRet' = <<GetClosestPointToTriangle(triArgs[1], triArgs[2], triArgs[3], triArgs[4])>>
  /\ UNCHANGED <<triArgs, mapperVars, segVars, meshVars, planeVars, measureVars, restVars>>

NextTriangle == CallClosestPointToTriangle
SpecTriangle == InitTriangle /\ [][NextTriangle]_vars

TriCalled == Len(triRet) = 1

\* twice the squared area of the triangle: 0 exactly when it is degenerate
Gram(v0, v1, v2) ==
  LET e0 == VSub(v1, v0)
      e1 == VSub(v2, v0)
  IN  Sub(Mul(Dot(e0, e0), Dot(e1, e1)), Mul(Dot(e0, e1), Dot(e0, e1)))

\* p = v0 + s (v1 - v0) + t (v2 - v0) with s >= 0, t >= 0, s + t <= 1: on a
\* proper triangle s and t are the solution of the normal equations, on a
\* degenerate one the hull is the union of the three sides
InTriangle(p, v0, v1, v2) ==
  LET e0 == VSub(v1, v0)
      e1 == VSub(v2, v0)
      a  == Dot(e0, e0)
      b  == Dot(e0, e1)
      c  == Dot(e1, e1)
      dp == Dot(e0, VSub(p, v0))
      ep == Dot(e1, VSub(p, v0))
      det == Gram(v0, v1, v2)
  IN  /\ ~VHasNaN(p)
      /\ IF det = R(0)
         THEN OnSegment(p, v0, v1) \/ OnSegment(p, v0, v2) \/ OnSegment(p, v1, v2)
         ELSE LET s == Div(Sub(Mul(c, dp), Mul(b, ep)), det)
                  t == Div(Sub(Mul(a, ep), Mul(b, dp)), det)
              IN  /\ Ge(s, R(0)) /\ Ge(t, R(0)) /\ Le(Add(s, t), R(1))
                  /\ p = VAdd(VAdd(v0, VScale(e0, s)), VScale(e1, t))

\* C5 (as claimed; stated on proper triangles, where the seven regions are
\* defined): the returned point is a point of the triangle, the returned
\* distance is its distance to the query point, and no point of the triangle
\* (vertices, and the lattice points i/SampleDiv, j/SampleDiv of its
\* barycentric coordinates) is nearer to the query point.
C5_TriangleNearest ==
  (TriCalled /\ Gram(triArgs[2], triArgs[3], triArgs[4]) # R(0)) =>
    LET p  == triArgs[1]
        v0 == triArgs[2]
        v1 == triArgs[3]
        v2 == triArgs[4]
        cp == triRet[1].closestPoint
    IN  /\ InTriangle(cp, v0, v1, v2)
        /\ triRet[1].distanceSq = DistSq(p, cp)
        /\ \A i \in 0 .. SampleDiv, j \in 0 .. SampleDiv :
             (i + j <= SampleDiv) =>
               Le(triRet[1].distanceSq,
                  DistSq(p, VAdd(VAdd(v0, VScale(VSub(v1, v0), Q(i, SampleDiv))),
                                 VScale(VSub(v2, v0), Q(j, SampleDiv)))))

\* C6 (as claimed): the returned point always is v0 + s (v1 - v0) + t (v2 - v0)
\* with s >= 0, t >= 0 and s + t <= 1, degenerate triangles included.
C6_TriangleContainment ==
  TriCalled => InTriangle(triRet[1].closestPoint, triArgs[2], triArgs[3], triArgs[4])

-----------------------------------------------------------------------------
(* getClosestPointsBetweenMeshes(meshA, meshB)                              *)
(*                                                                          *)
(* A mesh is [hasGeometry, position : local vertices (geometry.attributes. *)
(* position), hasIndex, index : the 0-based index buffer (<<>> without      *)
(* one), offset], where offset is the translation of matrixWorld:           *)
(* localToWorld(v) = v + offset (rotation and scale are the identity in the *)
(* model).  An index buffer holds whole triangles of existing vertices.     *)

\* the longest vertex buffer of a mesh of the model
MaxVerts == 3

LocalToWorld(mesh, v) == VAdd(v, mesh.offset)

\* verticesA / verticesB: every vertex in world coordinates
WorldVertices(mesh) == [i \in 1 .. Len(mesh.position) |-> LocalToWorld(mesh, mesh.position[i])]

\* index.count / 3
TriCount(mesh) == IF ~mesh.hasIndex THEN 0 ELSE Len(mesh.index) \div 3
\* the world vertex the index buffer names at (0-based) place j
IndexedVertex(mesh, j) == WorldVertices(mesh)[mesh.index[j + 1] + 1]

\* What a pass hands to the comparison with minDistance: the distance it
\* measured and the two points it would keep.
VertexFaceCandidate(vertex, result) ==
  [distanceSq |-> result.distanceSq, pointA |-> vertex, pointB |-> result.closestPoint]
FaceVertexCandidate(vertex, result) ==
  [distanceSq |-> result.distanceSq, pointA |-> result.closestPoint, pointB |-> vertex]
EdgeEdgeCandidate(result) ==
  [distanceSq |-> DistSq(result.pointA, result.pointB),
   pointA |-> result.pointA, pointB |-> result.pointB]

\* The candidates in the order the three loops visit them.
\* 1. every vertex of A against every face of B (if indexB)
VertexFaceCandidates(meshA, meshB) ==
  LET nA == Len(meshA.position)
      tB == TriCount(meshB)
  IN  [k \in 1 .. nA * tB |->
        LET i == (k - 1) \div tB
            j == 3 * ((k - 1) % tB)
        IN  VertexFaceCandidate(WorldVertices(meshA)[i + 1],
              GetClosestPointToTriangle(WorldVertices(meshA)[i + 1],
                IndexedVertex(meshB, j), IndexedVertex(meshB, j + 1),
                IndexedVertex(meshB, j + 2)))]

\* 2. every vertex of B against every face of A (if indexA)
FaceVertexCandidates(meshA, meshB) ==
  LET nB == Len(meshB.position)
      tA == TriCount(meshA)
  IN  [k \in 1 .. nB * tA |->
        LET i == (k - 1) \div tA
            j == 3 * ((k - 1) % tA)
        IN  FaceVertexCandidate(WorldVertices(meshB)[i + 1],
              GetClosestPointToTriangle(WorldVertices(meshB)[i + 1],
                IndexedVertex(meshA, j), IndexedVertex(meshA, j + 1),
                IndexedVertex(meshA, j + 2)))]

\* 3. every edge of A against every edge of B (if indexA && indexB); edge n
\* of the triangle at place i runs from index i + n to index i + (n + 1) % 3
EdgeEdgeCandidates(meshA, meshB) ==
  LET tA == TriCount(meshA)
      tB == TriCount(meshB)
  IN  [k \in 1 .. tA * 3 * tB * 3 |->
        LET eb == (k - 1) % 3
            j  == 3 * (((k - 1) \div 3) % tB)
            ea == ((k - 1) \div (3 * tB)) % 3
            i  == 3 * ((k - 1) \div (9 * tB))
        IN  EdgeEdgeCandidate(GetClosestPointsBetweenLineSegments(
              IndexedVertex(meshA, i + ea), IndexedVertex(meshA, i + ((ea + 1) % 3)),
              IndexedVertex(meshB, j + eb), IndexedVertex(meshB, j + ((eb + 1) % 3))))]

\* (variant: every candidate replaces the one kept, without the comparison)
RECURSIVE KeepMinimumNoComparison(_, _, _)
KeepMinimumNoComparison(cands, k, best) ==
  IF k > Len(cands) THEN best
  ELSE KeepMinimumNoComparison(cands, k + 1,
         [found |-> TRUE, distanceSq |-> cands[k].distanceSq,
          pointA |-> cands[k].pointA, pointB |-> cands[k].pointB])

\* (variant: a candidate at the same distance replaces the one kept)
RECURSIVE KeepMinimumOrEqual(_, _, _)
KeepMinimumOrEqual(cands, k, best) ==
  IF k > Len(cands) THEN best
  ELSE KeepMinimumOrEqual(cands, k + 1,
         IF Le(cands[k].distanceSq, best.distanceSq)
         THEN [found |-> TRUE, distanceSq |-> cands[k].distanceSq,
               pointA |-> cands[k].pointA, pointB |-> cands[k].pointB]
         ELSE best)

\* if (distance < minDistance) { minDistance = distance; closestPointA = ...; }
RECURSIVE KeepMinimum(_, _, _)
KeepMinimum(cands, k, best) ==
  IF k > Len(cands) THEN best
  ELSE KeepMinimum(cands, k + 1,
         IF Lt(cands[k].distanceSq, best.distanceSq)
         THEN [found |-> TRUE, distanceSq |-> cands[k].distanceSq,
               pointA |-> cands[k].pointA, pointB |-> cands[k].pointB]
         ELSE best)

\* let minDistance = Infinity; let closestPointA = null; let closestPointB = null;
NoneYet == [found |-> FALSE, distanceSq |-> PInf, pointA |-> Null, pointB |-> Null]
NullResult == [found |-> FALSE]
\* if (closestPointA && closestPointB) return { pointA, pointB, distance }; return null
ResultOrNull(best) == IF best.found THEN best ELSE NullResult

\* (variant: the test of closestPointA && closestPointB left out)
GetClosestPointsBetweenMeshesNoNullTest(meshA, meshB) ==
  IF ~meshA.hasGeometry \/ ~meshB.hasGeometry THEN NullResult
  ELSE
    LET best == KeepMinimum(VertexFaceCandidates(meshA, meshB)
                              \o FaceVertexCandidates(meshA, meshB)
                              \o EdgeEdgeCandidates(meshA, meshB), 1, NoneYet)
    IN  [found |-> TRUE, distanceSq |-> best.distanceSq,
         pointA |-> best.pointA, pointB |-> best.pointB]

\* -> {pointA, pointB, distance} | null.  A pass whose mesh has no index
\* buffer has TriCount 0 and contributes no candidate.
GetClosestPointsBetweenMeshes(meshA, meshB) ==
  IF ~meshA.hasGeometry \/ ~meshB.hasGeometry THEN NullResult
  ELSE
    ResultOrNull(KeepMinimum(VertexFaceCandidates(meshA, meshB)
                               \o FaceVertexCandidates(meshA, meshB)
                               \o EdgeEdgeCandidates(meshA, meshB), 1, NoneYet))

\* the meshes of the model: a vertex buffer that is a prefix of one of three
\* shapes, with no index buffer, an empty one, or a strip of k triangles
\* (0,1,2), (1,2,3), ...
Shapes ==
  { <<P3(0, 0, 0), P3(1, 0, 0), P3(0, 1, 0), P3(0, 0, 1), P3(1, 1, 0)>>,
    <<P3(0, 0, 0), P3(0, 0, 0), P3(0, 0, 0), P3(1, 0, 0), P3(0, 1, 0)>>,
    <<P3(0, 0, 1), P3(0, 0, 0), P3(0, 1, 0), P3(1, 0, 0), P3(1, 1, 1)>> }
Min2(i, j) == IF i < j THEN i ELSE j
Strip(k) == [n \in 1 .. 3 * k |-> ((n - 1) \div 3) + ((n - 1) % 3)]
Geometries ==
  { [hasGeometry |-> FALSE, position |-> <<>>, hasIndex |-> FALSE, index |-> <<>>] }
    \cup { [hasGeometry |-> TRUE, position |-> SubSeq(sh, 1, n),
             hasIndex |-> FALSE, index |-> <<>>] :
             sh \in Shapes, n \in 0 .. Min2(MaxVerts, 5) }
    \cup UNION { { [hasGeometry |-> TRUE, position |-> SubSeq(sh, 1, n),
                     hasIndex |-> TRUE, index |-> Strip(k)] :
                     k \in 0 .. (IF n >= 2 THEN n - 2 ELSE 0) } :
                 sh \in Shapes, n \in 0 .. Min2(MaxVerts, 5) }
OffsetsA == {P3(0, 0, 0), P3(1, 0, 0)}
OffsetsB == {P3(0, 0, 0), P3(0, 0, 1), P3(2, 1, 0)}
WithOffset(g, o) ==
  [hasGeometry |-> g.hasGeometry, position |-> g.position,
   hasIndex |-> g.hasIndex, index |-> g.index, offset |-> o]

InitMeshes ==
  /\ meshArgs \in { <<WithOffset(gA, oA), WithOffset(gB, oB)>> :
                      gA \in Geometries, oA \in OffsetsA, gB \in Geometries, oB \in OffsetsB }
  /\ meshRet = <<>>
  /\ MapperIdle /\ SegIdle /\ TriIdle /\ PlaneIdle /\ MeasureIdle /\ RestIdle

CallClosestPointsBetweenMeshes ==
  /\ meshRet = <<>>
  /\ meshRet' = <<GetClosestPointsBetweenMeshes(meshArgs[1], meshArgs[2])>>
  /\ UNCHANGED <<meshArgs, mapperVars, segVars, triVars, planeVars, measureVars, restVars>>

NextMeshes == CallClosestPointsBetweenMeshes
SpecMeshes == InitMeshes /\ [][NextMeshes]_vars

MeshCalled == Len(meshRet) = 1

\* the triangles of a mesh, as triples of world vertices
Triangles(mesh) ==
  { <<IndexedVertex(mesh, 3 * n), IndexedVertex(mesh, 3 * n + 1), IndexedVertex(mesh, 3 * n + 2)>> :
      n \in 0 .. TriCount(mesh) - 1 }
\* its edges, directed as the code walks them
Edges(mesh) ==
  UNION { { <<tr[1], tr[2]>>, <<tr[2], tr[3]>>, <<tr[3], tr[1]>> } : tr \in Triangles(mesh) }
VertexSet(mesh) == { WorldVertices(mesh)[i] : i \in 1 .. Len(mesh.position) }

\* every distance one of the three passes measures
PassDistances(meshA, meshB) ==
  { GetClosestPointToTriangle(v, tr[1], tr[2], tr[3]).distanceSq :
      v \in VertexSet(meshA), tr \in Triangles(meshB) }
    \cup { GetClosestPointToTriangle(v, tr[1], tr[2], tr[3]).distanceSq :
      v \in VertexSet(meshB), tr \in Triangles(meshA) }
    \cup { LET r == GetClosestPointsBetweenLineSegments(ea[1], ea[2], eb[1], eb[2])
           IN  DistSq(r.pointA, r.pointB) :
      ea \in Edges(meshA), eb \in Edges(meshB) }

\* p is a vertex of the mesh or a point of one of its triangles
OnMesh(p, mesh) ==
  \/ p \in VertexSet(mesh)
  \/ \E tr \in Triangles(mesh) : InTriangle(p, tr[1], tr[2], tr[3])

\* C7: a result's distance is the least distance measured by the three
\* passes, pointA is a point of mesh A, pointB a point of mesh B, and distance
\* is the distance between pointA and pointB.
C7_MeshesMinimum ==
  (MeshCalled /\ meshRet[1].found) =>
    LET ds == PassDistances(meshArgs[1], meshArgs[2])
    IN  /\ meshRet[1].distanceSq \in ds
        /\ \A d \in ds : ~Lt(d, meshRet[1].distanceSq)
        /\ OnMesh(meshRet[1].pointA, meshArgs[1])
        /\ OnMesh(meshRet[1].pointB, meshArgs[2])
        /\ meshRet[1].distanceSq = DistSq(meshRet[1].pointA, meshRet[1].pointB)

\* two triangles, B one unit along x and one along z from A, both indexed: the minimum
\* comes from the second pass (a vertex of B against the face of A)
C7_Witness ==
  /\ MeshCalled /\ meshRet[1].found
  /\ TriCount(meshArgs[1]) = 1 /\ TriCount(meshArgs[2]) = 1
  /\ meshRet[1].pointB \in VertexSet(meshArgs[2])
  /\ meshRet[1].pointA \notin VertexSet(meshArgs[1])
  /\ Gt(meshRet[1].distanceSq, R(0))

LacksTriangles(mesh) == ~mesh.hasIndex \/ TriCount(mesh) = 0

C8_ResultWithoutIndex ==
  /\ MeshCalled
  /\ ~meshArgs[1].hasIndex /\ Len(meshArgs[1].position) = 3
  /\ TriCount(meshArgs[2]) = 1
  /\ meshRet[1].found

AllCandidates(meshA, meshB) ==
  VertexFaceCandidates(meshA, meshB) \o FaceVertexCandidates(meshA, meshB)
    \o EdgeEdgeCandidates(meshA, meshB)
\* the places of the candidates at the least distance
Nearest(cands) ==
  { k \in 1 .. Len(cands) :
      \A j \in 1 .. Len(cands) : ~Lt(cands[j].distanceSq, cands[k].distanceSq) }
\* the result is the candidate at place k, and no earlier candidate is as near
IsFirstOf(result, cands, k) ==
  /\ result.pointA = cands[k].pointA /\ result.pointB = cands[k].pointB
  /\ result.distanceSq = cands[k].distanceSq
  /\ \A j \in 1 .. k - 1 : cands[j].distanceSq # cands[k].distanceSq

\* C20: the pair returned is the first candidate at the least distance in the
\* order pass 1, pass 2, pass 3 (a later candidate at the same distance does
\* not replace it), and a second run on the same meshes returns the same pair.
C20_TiesKeepFirst ==
  (MeshCalled /\ meshRet[1].found) =>
    /\ \E k \in Nearest(AllCandidates(meshArgs[1], meshArgs[2])) :
         IsFirstOf(meshRet[1], AllCandidates(meshArgs[1], meshArgs[2]), k)
    /\ GetClosestPointsBetweenMeshes(meshArgs[1], meshArgs[2]) = meshRet[1]

\* several candidates at the least distance, one of them of a later pass with
\* another pair of points than the one returned
TieWithOtherPair(result, cands) ==
  \E k \in Nearest(cands) :
    /\ k > Len(VertexFaceCandidates(meshArgs[1], meshArgs[2]))
    /\ cands[k].pointA # result.pointA
    /\ cands[1].distanceSq = result.distanceSq
    /\ cands[1].pointA = result.pointA /\ cands[1].pointB = result.pointB
C20_Witness ==
  /\ MeshCalled /\ meshRet[1].found
  /\ TieWithOtherPair(meshRet[1], AllCandidates(meshArgs[1], meshArgs[2]))

-----------------------------------------------------------------------------
(* CrossSectionPlane: createCrossSection and what it draws                  *)
(*                                                                          *)
(* A pipe object is [id, objectData : the record, position : pipeObject.    *)
(* position, csg : "ok" | "throws" | "nogeometry"], csg telling what        *)
(* drawCSGCrossSection meets for it: CSG.intersect returns a mesh, CSG.     *)
(* intersect throws, or the object has no geometry.                         *)
(* An entry of depthLines is a grid line [kind |-> "grid", depth, x, z] or  *)
(* a leader group [kind |-> "leader", x, z, topY, ...]; a leader also       *)
(* carries where it was drawn from: pass ("clicked", "depth", "plane"),     *)
(* pipe (place in objects), point (the intersection point) and radius.      *)

\* const maxDepth = -50
MaxDepthLine == 50
\* the pipes in objectsRef.current, and the plane positions 3k/2 of a click
MaxPipes == 2
MaxClickSteps == 3

\* lines 107-116: the clicked pipe's centerline against the plane Z = clickZ
\* (variant: the start point is used as it is when the direction has no z)
ClickedIntersectionNoSnap(seg, clickZ) ==
  LET direction == VSub(seg.end, seg.start)
  IN  IF Gt(MathAbs(direction[3]), Q(1, 1000))
      THEN LET t == Div(Sub(clickZ, seg.start[3]), direction[3])
           IN  VAdd(seg.start, VScale(direction, t))
      ELSE seg.start
ClickedIntersection(seg, clickZ) ==
  LET direction == VSub(seg.end, seg.start)
  IN  IF Gt(MathAbs(direction[3]), Q(1, 1000))
      THEN LET t == Div(Sub(clickZ, seg.start[3]), direction[3])
           IN  VAdd(seg.start, VScale(direction, t))
      ELSE V3(seg.start[1], seg.start[2], clickZ)

\* drawVerticalLine(position, pipeDepth, color, radius): the leader group
\* at (position.x, 0, position.z) whose line runs from startPoint.y = 0 to
\* endPoint.y = pipeTopY = pipeDepth + radius
\* (variant: the line ends at the centerline, pipeTopY = pipeDepth)
DrawVerticalLineToCenter(pass, pipe, point, radius) ==
  [kind |-> "leader", x |-> point[1], z |-> point[3], fromY |-> R(0), topY |-> point[2],
   pass |-> pass, pipe |-> pipe, point |-> point, radius |-> radius]
DrawVerticalLine(pass, pipe, point, radius) ==
  [kind |-> "leader", x |-> point[1], z |-> point[3], fromY |-> R(0),
   topY |-> Add(point[2], radius),
   pass |-> pass, pipe |-> pipe, point |-> point, radius |-> radius]

\* drawEastWestLine(depth, linePosition, 0x888888, false)
DrawEastWestLine(depth, linePosition) ==
  [kind |-> "grid", depth |-> depth, x |-> linePosition[1], z |-> linePosition[3]]

\* Each pass converts every record anew at its head (the same lines as in
\* PipeSegment); the model converts each record once per call and hands the
\* segment seg of the object at place i to the passes.
Segments(objs) == [i \in 1 .. Len(objs) |-> PipeSegment(objs[i].objectData)]

\* drawVerticalLinesAtCrossSectionPlane, one object: <<>> or <<leader>>
\* (variant: the test of t against [0, 1] left out)
PlanePassNoRange(seg, i, crossSectionZ) ==
      IF ~seg.ok THEN <<>>
      ELSE
        LET radius == seg.radius
            minZ == Sub(MathMin(seg.start[3], seg.end[3]), radius)
            maxZ == Add(MathMax(seg.start[3], seg.end[3]), radius)
            direction == VSub(seg.end, seg.start)
            t == Div(Sub(crossSectionZ, seg.start[3]), direction[3])
        IN  IF Ge(crossSectionZ, minZ) /\ Le(crossSectionZ, maxZ)
               /\ Gt(MathAbs(direction[3]), Q(1, 1000))
            THEN <<DrawVerticalLine("plane", i, VAdd(seg.start, VScale(direction, t)), radius)>>
            ELSE <<>>
PlanePass(seg, i, crossSectionZ) ==
      IF ~seg.ok THEN <<>>
      ELSE
        LET radius == seg.radius
            minZ == Sub(MathMin(seg.start[3], seg.end[3]), radius)
            maxZ == Add(MathMax(seg.start[3], seg.end[3]), radius)
            direction == VSub(seg.end, seg.start)
            t == Div(Sub(crossSectionZ, seg.start[3]), direction[3])
        IN  IF Ge(crossSectionZ, minZ) /\ Le(crossSectionZ, maxZ)
               /\ Gt(MathAbs(direction[3]), Q(1, 1000))
               /\ Ge(t, R(0)) /\ Le(t, R(1))
            THEN <<DrawVerticalLine("plane", i, VAdd(seg.start, VScale(direction, t)), radius)>>
            ELSE <<>>

\* drawVerticalLinesAtDepth, one object at one grid depth: <<>> or <<leader>>
DepthPass(seg, i, targetDepth, crossSectionZ) ==
      IF ~seg.ok THEN <<>>
      ELSE
        LET radius == seg.radius
            minZ == Sub(MathMin(seg.start[3], seg.end[3]), radius)
            maxZ == Add(MathMax(seg.start[3], seg.end[3]), radius)
            minY == Sub(MathMin(seg.start[2], seg.end[2]), radius)
            maxY == Add(MathMax(seg.start[2], seg.end[2]), radius)
            direction == VSub(seg.end, seg.start)
            t == Div(Sub(targetDepth, seg.start[2]), direction[2])
            intersectionPoint == VAdd(seg.start, VScale(direction, t))
        IN  IF Lt(crossSectionZ, minZ) \/ Gt(crossSectionZ, maxZ) THEN <<>>
            ELSE IF Ge(targetDepth, minY) /\ Le(targetDepth, maxY)
                    /\ Gt(MathAbs(direction[2]), Q(1, 1000))
                    /\ Ge(t, R(0)) /\ Le(t, R(1))
                    /\ ~Gt(MathAbs(Sub(intersectionPoint[3], crossSectionZ)), radius)
            THEN <<DrawVerticalLine("depth", i, intersectionPoint, radius)>>
            ELSE <<>>

\* allObjects.forEach(...) of the two passes
RECURSIVE ForEachAtDepth(_, _, _, _)
ForEachAtDepth(segs, i, targetDepth, crossSectionZ) ==
  IF i > Len(segs) THEN <<>>
  ELSE DepthPass(segs[i], i, targetDepth, crossSectionZ)
         \o ForEachAtDepth(segs, i + 1, targetDepth, crossSectionZ)

RECURSIVE ForEachAtPlane(_, _, _, _)
ForEachAtPlane(segs, i, crossSectionZ, exclude) ==
  IF i > Len(segs) THEN <<>>
  ELSE (IF i = exclude THEN <<>> ELSE PlanePass(segs[i], i, crossSectionZ))
         \o ForEachAtPlane(segs, i + 1, crossSectionZ, exclude)

\* (variant: the loop test taken as depth > maxDepth)
RECURSIVE GridLoopExclusive(_, _, _, _)
GridLoopExclusive(segs, k, linePosition, crossSectionZ) ==
  IF k >= MaxDepthLine THEN <<>>
  ELSE <<DrawEastWestLine(R(-k), linePosition)>>
         \o ForEachAtDepth(segs, 1, R(-k), crossSectionZ)
         \o GridLoopExclusive(segs, k + 1, linePosition, crossSectionZ)

\* for (let depth = 0; depth >= maxDepth; depth -= 1) { drawEastWestLine;
\* drawVerticalLinesAtDepth }, from the grid line at -k downwards
RECURSIVE GridLoop(_, _, _, _)
GridLoop(segs, k, linePosition, crossSectionZ) ==
  IF k > MaxDepthLine THEN <<>>
  ELSE <<DrawEastWestLine(R(-k), linePosition)>>
         \o ForEachAtDepth(segs, 1, R(-k), crossSectionZ)
         \o GridLoop(segs, k + 1, linePosition, crossSectionZ)

\* drawCrossSectionCircle(center, radius, axisDirection, color, pipeObject,
\* crossSectionZ): <<>> or the mesh pushed to crossSections.  The checks of
\* center and radius come first; then drawCSGCrossSection, which returns
\* without a mesh for an object without geometry; a throw of CSG.intersect is
\* caught and the circle of the old method is drawn.
DrawCrossSectionCircle(objs, pipe, pass, center, radius) ==
  IF VHasNaN(center) THEN <<>>
  ELSE IF IsNaN(radius) \/ Le(radius, R(0)) THEN <<>>
  ELSE IF objs[pipe].csg = "nogeometry" THEN <<>>
  ELSE IF objs[pipe].csg = "ok"
       THEN <<[kind |-> "csg", pipe |-> pipe, pass |-> pass]>>
       ELSE <<[kind |-> "circle", pipe |-> pipe, pass |-> pass,
               center |-> center, radius |-> radius]>>

\* (variant: the throw of CSG.intersect is not caught, nothing is drawn after it)
RECURSIVE SectionsOfUncaught(_, _, _)
SectionsOfUncaught(objs, lines, k) ==
  IF k > Len(lines) THEN <<>>
  ELSE IF lines[k].kind # "leader" THEN SectionsOfUncaught(objs, lines, k + 1)
  ELSE IF DrawCrossSectionCircle(objs, lines[k].pipe, lines[k].pass,
                                 lines[k].point, lines[k].radius) # <<>>
          /\ objs[lines[k].pipe].csg = "throws"
       THEN <<>>
       ELSE DrawCrossSectionCircle(objs, lines[k].pipe, lines[k].pass,
                                   lines[k].point, lines[k].radius)
              \o SectionsOfUncaught(objs, lines, k + 1)

\* the cross-sections drawn along with the leaders of the two passes
RECURSIVE SectionsOf(_, _, _)
SectionsOf(objs, lines, k) ==
  IF k > Len(lines) THEN <<>>
  ELSE (IF lines[k].kind = "leader"
        THEN DrawCrossSectionCircle(objs, lines[k].pipe, lines[k].pass,
                                    lines[k].point, lines[k].radius)
        ELSE <<>>)
         \o SectionsOf(objs, lines, k + 1)

\* the labels pushed along with the lines: drawDepthLabel for every tenth
\* grid line (a sprite added to the scene), the label of the group for every
\* leader (a sprite added to its group)
RECURSIVE LabelsOf(_, _)
LabelsOf(lines, k) ==
  IF k > Len(lines) THEN <<>>
  ELSE (IF lines[k].kind = "leader"
        THEN <<[value |-> lines[k].topY, parent |-> "group",
                position |-> V3(lines[k].x, Div(lines[k].topY, R(2)), lines[k].z)]>>
        ELSE IF lines[k].depth[1] % 10 = 0
        THEN <<[value |-> lines[k].depth, parent |-> "scene",
                position |-> V3(Sub(lines[k].x, R(5)), lines[k].depth, lines[k].z)]>>
        ELSE <<>>)
         \o LabelsOf(lines, k + 1)

\* drawClickedPipeCrossSection(pipeObject, clickPoint): everything it pushes,
\* NoDrawing when the record has fewer than two vertices
NoDrawing == [depthLines |-> <<>>, crossSections |-> <<>>]
DrawClickedPipeCrossSection(objs, clicked, clickZ) ==
  LET segs == Segments(objs)
      seg  == PipeSegment(objs[clicked].objectData)
  IN  IF ~seg.ok THEN NoDrawing
      ELSE
        LET intersectionPoint == ClickedIntersection(seg, clickZ)
            linePosition == V3(intersectionPoint[1], R(0), intersectionPoint[3])
            grid    == GridLoop(segs, 0, linePosition, clickZ)
            leader  == DrawVerticalLine("clicked", clicked,
                         V3(linePosition[1], intersectionPoint[2], linePosition[3]), seg.radius)
            atPlane == ForEachAtPlane(segs, 1, clickZ, clicked)
        IN  [depthLines |-> grid \o <<leader>> \o atPlane,
             crossSections |->
               SectionsOf(objs, grid, 1) \o SectionsOf(objs, atPlane, 1)
                 \o DrawCrossSectionCircle(objs, clicked, "clicked",
                                           objs[clicked].position, seg.radius)]

\* the pipes of the model, in the order of the data file
Pipe(id, radius, sd, ed, vertices, csg) ==
  [id |-> id, csg |-> csg, position |-> P3(0, 0, 0),
   objectData |-> [radius |-> radius, start_point_depth |-> sd,
                   end_point_depth |-> ed, vertices |-> vertices]]
Palette ==
  << Pipe("vertical", Q(1, 4),  R(200), R(800), <<V3(Q(3, 2), R(1), R(0)), V3(Q(3, 2), R(1), R(0))>>, "ok"),
     Pipe("sloped",   R(300),   R(100), R(500), <<P3(0, 2, 0), P3(4, 2, 0)>>, "throws"),
     Pipe("short",    Null,     R(650), R(650), <<P3(1, 1, 0)>>, "nogeometry"),
     Pipe("raw",      R(1),     Null,   NaN,    <<P3(1, 0, -2), P3(2, 1, -2), P3(2, 3, -4)>>, "ok"),
     Pipe("level",    Q(3, 10), R(650), R(650), <<P3(0, 0, 0), P3(3, 0, 0)>>, "ok"),
     [Pipe("nanradius", NaN,    R(300), R(300), <<P3(0, 3, 0), P3(3, 3, 0)>>, "ok")
        EXCEPT !.position = V3(R(3), NaN, Q(3, 2))],
     [Pipe("nancoords", Q(3, 10), R(300), R(500), <<P3(0, 1, 0), V3(NaN, R(1), R(0))>>, "ok")
        EXCEPT !.position = V3(R(1), Q(-43, 10), NaN)] >>

\* objectsRef.current: a run of consecutive pipes of the data file, at most
\* MaxPipes of them
Catalogs ==
  { SubSeq(Palette, i, Min2(i + n - 1, Len(Palette))) :
      i \in 1 .. Len(Palette), n \in 1 .. MaxPipes }

\* the plane positions of a click: 0, 3/2, 3, ...
ClickZs == { Q(3 * k, 2) : k \in 0 .. MaxClickSteps }

\* An object the component created is named <<stamp, array, place>>: the
\* stamp of the call that created it, the array that tracks it and its place
\* there.  The stamp alternates between 0 and 1 from call to call.
\* every object the three arrays track
Tracked(stamp, lines, labels, sections) ==
  { <<stamp, "depthLines", k>> : k \in 1 .. Len(lines) }
    \cup { <<stamp, "depthLabels", k>> : k \in 1 .. Len(labels) }
    \cup { <<stamp, "crossSections", k>> : k \in 1 .. Len(sections) }
\* this.scene.add(...): the lines and groups, the sprites of drawDepthLabel
\* and the cross-section meshes (the sprite of a leader is added to its group)
SceneChildren(stamp, lines, labels, sections) ==
  { <<stamp, "depthLines", k>> : k \in 1 .. Len(lines) }
    \cup { <<stamp, "depthLabels", k>> : k \in { n \in 1 .. Len(labels) : labels[n].parent = "scene" } }
    \cup { <<stamp, "crossSections", k>> : k \in 1 .. Len(sections) }

\* clear(): this.scene.remove of every tracked line, sprite and mesh
\* (variant: the cross-section meshes are not removed from the scene)
ClearKeepingSections(sc, stamp, lines, labels, sections) ==
  sc \ Tracked(stamp, lines, labels, <<>>)
Clear(sc, stamp, lines, labels, sections) ==
  sc \ Tracked(stamp, lines, labels, sections)

\* The geometries, materials and textures made for a tracked object, named
\* <<stamp, array, place, part>>.  A grid line is a Line2 (LineGeometry,
\* LineMaterial); a leader is a Group whose child Line2 has its own
\* LineGeometry and LineMaterial (its sprite is tracked by depthLabels); a
\* label is a Sprite (SpriteMaterial with a CanvasTexture map); a
\* cross-section mesh has a geometry and a material, and drawCSGCrossSection
\* made for it the clone of the pipe's geometry, the material of pipeMesh and
\* the slab's geometry and material, also when CSG.intersect then threw and
\* the circle was drawn.
LineParts(line) ==
  IF line.kind = "grid" THEN {"geometry", "material"}
  ELSE {"line.geometry", "line.material"}
LabelParts == {"material", "material.map"}
SectionParts ==
  {"geometry", "material",
   "pipeMesh.geometry", "pipeMesh.material", "planeMesh.geometry", "planeMesh.material"}
CreatedResources(stamp, lines, labels, sections) ==
  UNION { { <<stamp, "depthLines", k, part>> : part \in LineParts(lines[k]) } :
            k \in 1 .. Len(lines) }
    \cup { <<stamp, "depthLabels", k, part>> : k \in 1 .. Len(labels), part \in LabelParts }
    \cup { <<stamp, "crossSections", k, part>> : k \in 1 .. Len(sections), part \in SectionParts }

\* clear(): if (line.geometry) line.geometry.dispose(); if (line.material)
\* line.material.dispose() on every element of depthLines (a Group has
\* neither); sprite.material.map and sprite.material of every label;
\* geometry and material of every cross-section mesh and, by traverse, of
\* its children
DisposedByClear(stamp, lines, labels, sections) ==
  UNION { { <<stamp, "depthLines", k, part>> : part \in LineParts(lines[k]) \cap {"geometry", "material"} } :
            k \in 1 .. Len(lines) }
    \cup { <<stamp, "depthLabels", k, part>> : k \in 1 .. Len(labels), part \in LabelParts }
    \cup { <<stamp, "crossSections", k, part>> :
             k \in 1 .. Len(sections), part \in {"geometry", "material"} }

Init ==
  /\ objects \in Catalogs
  /\ depthLines = <<>>
  /\ depthLabels = <<>>
  /\ crossSections = <<>>
  /\ lastQuery = <<>>
  /\ scene = {}
  /\ epoch = 0
  /\ MapperIdle /\ SegIdle /\ TriIdle /\ MeshIdle /\ MeasureIdle /\ RestIdle

\* createCrossSection(pipeObject, clickPoint) on a pipe of the scene:
\* clear(), then drawClickedPipeCrossSection
CreateCrossSection ==
  \E clicked \in 1 .. Len(objects), clickZ \in ClickZs :
    LET drawn == DrawClickedPipeCrossSection(objects, clicked, clickZ)
    IN  /\ depthLines' = drawn.depthLines
        /\ depthLabels' = LabelsOf(drawn.depthLines, 1)
        /\ crossSections' = drawn.crossSections
        /\ lastQuery' = <<[pipe |-> clicked, clickZ |-> clickZ]>>
        /\ epoch' = 1 - epoch
        /\ scene' = Clear(scene, epoch, depthLines, depthLabels, crossSections)
                      \cup SceneChildren(epoch', depthLines', depthLabels', crossSections')
        /\ UNCHANGED <<objects, mapperVars, segVars, triVars, meshVars, measureVars, restVars>>

\* createCrossSection with no pipe object, or one without userData.objectData:
\* clear(), a warning, and nothing drawn
CreateCrossSectionInvalid ==
  /\ depthLines' = <<>>
  /\ depthLabels' = <<>>
  /\ crossSections' = <<>>
  /\ lastQuery' = <<>>
  /\ epoch' = 1 - epoch
  /\ scene' = Clear(scene, epoch, depthLines, depthLabels, crossSections)
  /\ UNCHANGED <<objects, mapperVars, segVars, triVars, meshVars, measureVars, restVars>>

Next == CreateCrossSection \/ CreateCrossSectionInvalid
Spec == Init /\ [][Next]_vars

Queried == Len(lastQuery) = 1
Leaders == { depthLines[k] : k \in { n \in 1 .. Len(depthLines) : depthLines[n].kind = "leader" } }
SectionSet == { crossSections[k] : k \in 1 .. Len(crossSections) }

\* the leader l stands on a point of its pipe's centerline between the two
\* ends (parameter within [0, 1]) and, drawn by the fixed-depth pass, within
\* the pipe's radius of the plane
AcceptedIntersection(l) ==
  LET seg == PipeSegment(objects[l.pipe].objectData)
  IN  /\ seg.ok
      /\ OnSegment(l.point, seg.start, seg.end)
      /\ l.x = l.point[1] /\ l.z = l.point[3]
      /\ l.pass = "depth" =>
           Le(MathAbs(Sub(l.point[3], lastQuery[1].clickZ)), seg.radius)

\* C9: every leader and every cross-section drawn for a pipe other than the
\* clicked one comes from a centerline intersection with t in [0, 1]; in the
\* fixed-depth pass the intersection's z is within the radius of the plane's.
C9_OtherPipesAccepted ==
  Queried =>
    /\ \A l \in Leaders :
         l.pipe # lastQuery[1].pipe =>
           (l.pass \in {"depth", "plane"} /\ AcceptedIntersection(l))
    /\ \A c \in SectionSet :
         c.pipe # lastQuery[1].pipe =>
           \E l \in Leaders :
             l.pipe = c.pipe /\ l.pass = c.pass /\ AcceptedIntersection(l)

\* another pipe than the clicked one has a leader from each of the two passes
\* and a cross-section
C9_Witness ==
  /\ Queried
  /\ \E l \in Leaders : l.pipe # lastQuery[1].pipe /\ l.pass = "depth"
  /\ \E l \in Leaders : l.pipe # lastQuery[1].pipe /\ l.pass = "plane"
  /\ \E c \in SectionSet : c.pipe # lastQuery[1].pipe

\* u x v
Cross(u, v) ==
  <<Sub(Mul(u[2], v[3]), Mul(u[3], v[2])),
    Sub(Mul(u[3], v[1]), Mul(u[1], v[3])),
    Sub(Mul(u[1], v[2]), Mul(u[2], v[1]))>>

ClickedLeaders == { l \in Leaders : l.pass = "clicked" }

\* C10: the clicked pipe's intersection point has the plane's z: a point of
\* the centerline's line (start + t * direction) when direction.z is not near
\* zero, the start point with z set to the plane's when it is.
C10_ClickedOnPlane ==
  (Queried /\ PipeSegment(objects[lastQuery[1].pipe].objectData).ok) =>
    LET seg == PipeSegment(objects[lastQuery[1].pipe].objectData)
        direction == VSub(seg.end, seg.start)
    IN  /\ Cardinality(ClickedLeaders) = 1
        /\ \A l \in ClickedLeaders :
             /\ l.pipe = lastQuery[1].pipe
             /\ l.point[3] = lastQuery[1].clickZ
             /\ l.z = lastQuery[1].clickZ
             /\ IF Gt(MathAbs(direction[3]), Q(1, 1000))
                THEN /\ Cross(VSub(l.point, seg.start), direction)[2] = R(0)
                     /\ IF IsNaN(direction[2])
                        THEN IsNaN(l.point[2])
                        ELSE Cross(VSub(l.point, seg.start), direction) = P3(0, 0, 0)
                ELSE l.point[1] = seg.start[1] /\ l.point[2] = seg.start[2]

\* C24 (as claimed): clear(), run in any state createCrossSection can leave,
\* removes every object createCrossSection created from the scene and
\* disposes every geometry, material and texture created for them, the
\* leader line inside each leader group included.
C24_ClearDisposesAll ==
  /\ Clear(scene, epoch, depthLines, depthLabels, crossSections) = {}
  /\ CreatedResources(epoch, depthLines, depthLabels, crossSections)
       \subseteq DisposedByClear(epoch, depthLines, depthLabels, crossSections)

\* the places of the grid lines in depthLines, of the grid labels in depthLabels
GridLines == { n \in 1 .. Len(depthLines) : depthLines[n].kind = "grid" }
SceneLabels == { n \in 1 .. Len(depthLabels) : depthLabels[n].parent = "scene" }

\* C23: a createCrossSection on a pipe with at least two vertices leaves
\* exactly one grid line at each whole depth 0, -1, ..., -50 and no other
\* grid line, each at the x and z of the clicked pipe's intersection point,
\* and one grid label at each depth that is a multiple of 10 (placed 5 to
\* the left of the line's anchor) and none at any other depth.
C23_GridLines ==
  (Queried /\ PipeSegment(objects[lastQuery[1].pipe].objectData).ok) =>
    LET p == ClickedIntersection(PipeSegment(objects[lastQuery[1].pipe].objectData),
                                 lastQuery[1].clickZ)
    IN  /\ Cardinality(GridLines) = MaxDepthLine + 1
        /\ \A n \in GridLines : depthLines[n].x = p[1] /\ depthLines[n].z = p[3]
        /\ Cardinality(SceneLabels) = (MaxDepthLine \div 10) + 1
        /\ \A k \in 0 .. MaxDepthLine :
             /\ Cardinality({ n \in GridLines : depthLines[n].depth = R(-k) }) = 1
             /\ Cardinality({ n \in SceneLabels :
                                /\ depthLabels[n].value = R(-k)
                                /\ depthLabels[n].position = V3(Sub(p[1], R(5)), R(-k), p[3]) })
                  = IF k % 10 = 0 THEN 1 ELSE 0

\* the sloped pipe clicked where its centerline has left the start point
C23_Witness ==
  /\ Queried
  /\ objects[lastQuery[1].pipe].id = "sloped"
  /\ lastQuery[1].clickZ = R(3)
  /\ Cardinality(GridLines) = MaxDepthLine + 1
  /\ \E n \in GridLines : depthLines[n].depth = R(-MaxDepthLine) /\ depthLines[n].z = R(3)
  /\ \E n \in SceneLabels : depthLabels[n].value = R(-50)

\* a clicked pipe without extent in z, cut by a plane away from it: the
\* start point moved onto the plane
C10_Witness ==
  /\ Queried
  /\ objects[lastQuery[1].pipe].id = "vertical"
  /\ lastQuery[1].clickZ = R(3)
  /\ \E l \in ClickedLeaders : l.z = R(3) /\ l.x = R(1) /\ l.topY = R(-2)

\* the leaders drawn for the pipe named id
LeadersOf(id) == { l \in Leaders : objects[l.pipe].id = id }

\* C11 (as claimed): the vertical pipe (start_point_depth 200, end_point_depth
\* 800, radius 0.25) cut by the plane through its midpoint gets exactly one
\* leader, and that leader stands on the centerline at elevation -5.25.
C11_VerticalPipeOneLeader ==
  ( /\ Queried
    /\ \E i \in 1 .. Len(objects) : objects[i].id = "vertical"
    /\ lastQuery[1].clickZ = Q(3, 2) )
    => /\ Cardinality(LeadersOf("vertical")) = 1
       /\ \A l \in LeadersOf("vertical") : l.point[2] = Q(-21, 4)

\* the point where the centerline of seg meets the plane {p : p[axis] =
\* value}, as a set: empty when the centerline runs along the plane (its
\* extent along the axis is at most 0.001) or the plane misses it between
\* its ends
CutAt(seg, axis, value) ==
  LET direction == VSub(seg.end, seg.start)
  IN  IF ~Gt(MathAbs(direction[axis]), Q(1, 1000)) THEN {}
      ELSE { VAdd(seg.start, VScale(direction, t)) :
               t \in { u \in {Div(Sub(value, seg.start[axis]), direction[axis])} :
                         Ge(u, R(0)) /\ Le(u, R(1)) } }

\* the accepted intersections of the last call, <<pass, pipe, point>>: the
\* clicked pipe's, the other pipes' with the plane, and every pipe's with a
\* grid depth within its radius of the plane
AcceptedIntersections ==
  LET clicked == lastQuery[1].pipe
      clickZ  == lastQuery[1].clickZ
      segs    == Segments(objects)
      pipes   == { i \in 1 .. Len(objects) : segs[i].ok }
  IN  { <<"clicked", clicked, ClickedIntersection(segs[clicked], clickZ)>> }
        \cup UNION { { <<"plane", i, p>> : p \in CutAt(segs[i], 3, clickZ) } :
                       i \in pipes \ {clicked} }
        \cup UNION { { <<"depth", i, p>> :
                         p \in { q \in UNION { CutAt(segs[i], 2, R(-k)) : k \in 0 .. MaxDepthLine } :
                                   Le(MathAbs(Sub(q[3], clickZ)), segs[i].radius) } } :
                       i \in pipes }

\* a pipe whose radius is not a finite number or whose first or last vertex
\* has a NaN coordinate
NonFinitePipe(objectData) ==
  \/ ~IsFinite(NormalizeRadius(objectData.radius))
  \/ \E n \in {1, Len(objectData.vertices)} \cap DOMAIN objectData.vertices :
       VHasNaN(objectData.vertices[n])
FinitePipes == { i \in 1 .. Len(objects) : ~NonFinitePipe(objects[i].objectData) }

LeaderCount ==
  Cardinality({ n \in 1 .. Len(depthLines) :
                  depthLines[n].kind = "leader" /\ depthLines[n].pipe \in FinitePipes })

C15_NonFinitePipeNoResult ==
  Queried =>
    /\ \A i \in (1 .. Len(objects)) \ FinitePipes :
         /\ ~ \E l \in Leaders : l.pipe = i
         /\ ~ \E c \in SectionSet : c.pipe = i
    /\ ( /\ lastQuery[1].pipe \in FinitePipes
         /\ PipeSegment(objects[lastQuery[1].pipe].objectData).ok )
         => ClickedLeaders # {}

\* the leaders whose drawCrossSectionCircle call gets past the checks of the
\* center and the radius and finds a geometry: the places in depthLines
SectionDue ==
  { n \in 1 .. Len(depthLines) :
      /\ depthLines[n].kind = "leader"
      /\ objects[depthLines[n].pipe].csg # "nogeometry"
      /\ ~IsNaN(depthLines[n].radius) /\ Gt(depthLines[n].radius, R(0))
      /\ ~VHasNaN(IF depthLines[n].pass = "clicked"
                   THEN objects[depthLines[n].pipe].position
                   ELSE depthLines[n].point) }

\* C16: a failure of CSG.intersect is caught for the pipe it happens on: the
\* call ends as every other, that pipe gets the circle of the old method, and
\* every leader due a cross-section has one, before and after the failure.
C16_CsgFailureCaught ==
  Queried =>
    /\ Len(crossSections) = Cardinality(SectionDue)
    /\ \A n \in SectionDue :
         \E c \in SectionSet :
           /\ c.pipe = depthLines[n].pipe /\ c.pass = depthLines[n].pass
           /\ (c.kind = "circle") <=> (objects[c.pipe].csg = "throws")
    /\ \A c \in SectionSet : (c.kind = "circle") <=> (objects[c.pipe].csg = "throws")

\* a failure on one pipe in the grid loop, and after it a CSG cross-section
\* of another pipe
C16_Witness ==
  /\ Queried
  /\ \E j, k \in 1 .. Len(crossSections) :
       /\ j < k
       /\ crossSections[j].kind = "circle" /\ objects[crossSections[j].pipe].csg = "throws"
       /\ crossSections[k].kind = "csg" /\ crossSections[k].pipe # crossSections[j].pipe

\* the record has no usable depth attributes: one is missing or not a number
LacksDepthAttrs(objectData) ==
  \/ objectData.start_point_depth = Null
  \/ objectData.end_point_depth = Null
  \/ ~IsFinite(objectData.start_point_depth)
  \/ ~IsFinite(objectData.end_point_depth)
\* the raw vertex v as a centerline point: (v[1], v[2] - radius, v[0])
RawCenter(v, radius) == V3(v[2], Sub(v[3], radius), v[1])

\* C17: a record with fewer than two vertices gives nothing in any pass
\* (nothing at all is drawn when it is the clicked one), and a record without
\* usable depth attributes is processed on the centerline through its raw
\* vertices lowered by the radius.
C17_ShortAndRawRecords ==
  Queried =>
    /\ \A i \in 1 .. Len(objects) :
         Len(objects[i].objectData.vertices) < 2 =>
           /\ ~ \E l \in Leaders : l.pipe = i
           /\ ~ \E c \in SectionSet : c.pipe = i
    /\ Len(objects[lastQuery[1].pipe].objectData.vertices) < 2 =>
         depthLines = <<>> /\ depthLabels = <<>> /\ crossSections = <<>>
    /\ ( /\ Len(objects[lastQuery[1].pipe].objectData.vertices) >= 2
         /\ LacksDepthAttrs(objects[lastQuery[1].pipe].objectData) )
         => ClickedLeaders # {}
    /\ \A l \in Leaders :
         (LacksDepthAttrs(objects[l.pipe].objectData) /\ l.pipe \in FinitePipes) =>
           LET od == objects[l.pipe].objectData
               radius == NormalizeRadius(od.radius)
               a == RawCenter(od.vertices[1], radius)
               b == RawCenter(od.vertices[Len(od.vertices)], radius)
           IN  IF l.pass # "clicked" THEN OnSegment(l.point, a, b)
               ELSE IF Gt(MathAbs(Sub(b[3], a[3])), Q(1, 1000))
                    THEN Cross(VSub(l.point, a), VSub(b, a)) = P3(0, 0, 0)
                    ELSE l.point[1] = a[1] /\ l.point[2] = a[2]

\* the record of one vertex next to the clicked record without depth
\* attributes: one leader, on the lowered raw centerline, and nothing for the
\* short record
C17_Witness ==
  /\ Queried
  /\ Len(objects) = 2
  /\ objects[1].id = "short" /\ objects[2].id = "raw"
  /\ lastQuery[1] = [pipe |-> 2, clickZ |-> Q(3, 2)]
  /\ LeadersOf("short") = {}
  /\ \E l \in LeadersOf("raw") : l.pass = "clicked" /\ l.point = V3(Q(3, 2), R(-4), Q(3, 2))

\* C13: after any sequence of calls, what the component tracks is what the
\* most recent call drew, and what it left in the scene are exactly the
\* objects of that call: nothing of an earlier call remains, nothing at all
\* after a call with an invalid pipe object.
C13_NoAccumulation ==
  /\ scene = SceneChildren(epoch, depthLines, depthLabels, crossSections)
  /\ \A o \in scene : o[1] = epoch
  /\ IF Queried
     THEN LET drawn == DrawClickedPipeCrossSection(objects, lastQuery[1].pipe,
                                                   lastQuery[1].clickZ)
          IN  /\ depthLines = drawn.depthLines
              /\ depthLabels = LabelsOf(drawn.depthLines, 1)
              /\ crossSections = drawn.crossSections
     ELSE depthLines = <<>> /\ depthLabels = <<>> /\ crossSections = <<>> /\ scene = {}

\* a second call after one that left lines, labels and cross-sections
C13_Witness ==
  /\ Queried
  /\ epoch = 0
  /\ Len(crossSections) >= 2
  /\ \E k \in 1 .. Len(depthLabels) : depthLabels[k].parent = "scene"
  /\ \E k \in 1 .. Len(depthLabels) : depthLabels[k].parent = "group"

-----------------------------------------------------------------------------
(* The three places that turn a raw vertex into a THREE.Vector3 *)

\* v[2] || 0
OrZero(x) == IF IsNaN(x) THEN R(0) ELSE x

\* DistanceMeasurement.calculateDistance, getPoint3D(vertices, index, depthAttr)
\* (index from 1 here)
GetPoint3D(vertices, index, depthAttr) ==
  LET v == vertices[index]
  IN  IF depthAttr # Null /\ IsFinite(depthAttr)
      THEN LET depth == Div(depthAttr, R(100))
           IN  V3(v[1], IF Gt(depth, R(0)) THEN Neg(depth) ELSE depth, v[2])
      ELSE V3(v[1], OrZero(v[3]), v[2])

\* the end points calculateDistance takes for a pipe: startA and endA
MeasurementSegment(objectData) ==
  IF Len(objectData.vertices) < 2 THEN NoSegment
  ELSE [ok |-> TRUE,
        start |-> GetPoint3D(objectData.vertices, 1, objectData.start_point_depth),
        end   |-> GetPoint3D(objectData.vertices, Len(objectData.vertices),
                             objectData.end_point_depth)]

\* const startCenterY = (startDepth > 0 ? -startDepth : startDepth) - radius;
SceneCenterY(depthAttr, radius) ==
  LET depth == Div(depthAttr, R(100))
  IN  Sub(IF Gt(depth, R(0)) THEN Neg(depth) ELSE depth, radius)

\* Scene3D.createPipeObject for a Cylinder record: startPoint and endPoint
\* of the cylinder
CreatePipeObject(objectData) ==
  LET vertices == objectData.vertices
  IN  IF Len(vertices) < 2 THEN NoSegment
      ELSE
        LET radius == NormalizeRadius(objectData.radius)
            start  == vertices[1]
            end    == vertices[Len(vertices)]
        IN  IF HasDepthAttrs(objectData)
            THEN [ok |-> TRUE,
                  start |-> V3(start[2], SceneCenterY(objectData.start_point_depth, radius), start[1]),
                  end   |-> V3(end[2], SceneCenterY(objectData.end_point_depth, radius), end[1])]
            ELSE [ok |-> TRUE,
                  start |-> V3(start[2], Sub(start[3], radius), start[1]),
                  end   |-> V3(end[2], Sub(end[3], radius), end[1])]

\* Scene3D, where the mesh is placed (Cylinder record):
\* const startCenterY = startDepth > 0 ? -(startDepth - radius): startDepth;
PlacementCenterY(depthAttr, radius) ==
  LET depth == Div(depthAttr, R(100))
  IN  IF Gt(depth, R(0)) THEN Neg(Sub(depth, radius)) ELSE depth

\* startPoint and endPoint between which the mesh is centred and along
\* which it is rotated
PlacePipeObject(objectData) ==
  LET vertices == objectData.vertices
  IN  IF Len(vertices) < 2 THEN NoSegment
      ELSE
        LET radius == NormalizeRadius(objectData.radius)
            start  == vertices[1]
            end    == vertices[Len(vertices)]
        IN  IF HasDepthAttrs(objectData)
            THEN [ok |-> TRUE,
                  start |-> V3(start[2], PlacementCenterY(objectData.start_point_depth, radius), start[1]),
                  end   |-> V3(end[2], PlacementCenterY(objectData.end_point_depth, radius), end[1])]
            ELSE [ok |-> TRUE,
                  start |-> V3(start[2], Sub(start[3], radius), start[1]),
                  end   |-> V3(end[2], Sub(end[3], radius), end[1])]

\* CrossSectionView.getPipeRadius
GetPipeRadius(attr) ==
  LET r0 == IF attr # Null THEN attr ELSE Q(3, 10)
      r1 == IF Gt(r0, R(5)) THEN Div(r0, R(1000)) ELSE r0
  IN  MathMax(r1, Q(1, 20))

\* CrossSectionView.getPipeStartEnd:
\* const startCenterY = startDepth > 0 ? -(startDepth + r) : startDepth;
ViewCenterY(depthAttr, r) ==
  LET depth == Div(depthAttr, R(100))
  IN  IF Gt(depth, R(0)) THEN Neg(Add(depth, r)) ELSE depth

\* generateCrossSections returns early on fewer than two vertices; otherwise
\* getPipeStartEnd(vertices[0], vertices[vertices.length - 1], objectData, radius)
GetPipeStartEnd(objectData) ==
  LET vertices == objectData.vertices
  IN  IF Len(vertices) < 2 THEN NoSegment
      ELSE
        LET r           == GetPipeRadius(objectData.radius)
            startVertex == vertices[1]
            endVertex   == vertices[Len(vertices)]
        IN  IF HasDepthAttrs(objectData)
            THEN [ok |-> TRUE,
                  start |-> V3(startVertex[2], ViewCenterY(objectData.start_point_depth, r), startVertex[1]),
                  end   |-> V3(endVertex[2], ViewCenterY(objectData.end_point_depth, r), endVertex[1])]
            ELSE [ok |-> TRUE,
                  start |-> V3(startVertex[2], Sub(startVertex[3], r), startVertex[1]),
                  end   |-> V3(endVertex[2], Sub(endVertex[3], r), endVertex[1])]

\* one record converted by the cross-section engine, the measurement code,
\* the renderer (geometry and placement) and the cross-section view
ConvertRecord ==
  /\ segment3 = <<>>
  /\ segment3' = <<[engine |-> PipeSegment(record),
                    measurement |-> MeasurementSegment(record),
                    renderer |-> CreatePipeObject(record),
                    placement |-> PlacePipeObject(record),
                    view |-> GetPipeStartEnd(record)]>>
  /\ UNCHANGED <<record, segVars, triVars, meshVars, planeVars, measureVars, restVars>>

NextAxes == ConvertRecord
SpecAxes == InitMapper /\ [][NextAxes]_vars

\* the segment s has x from index 0 and z from index 1 of the record's first
\* and last raw vertex
EastWestIsX(s) ==
  /\ s.start[1] = record.vertices[1][1] /\ s.start[3] = record.vertices[1][2]
  /\ s.end[1] = record.vertices[Len(record.vertices)][1]
  /\ s.end[3] = record.vertices[Len(record.vertices)][2]

\* C19 (as claimed): each of the three places gives (east-west, elevation,
\* north-south), x = vertex[0] and z = vertex[1], and so the three agree on
\* x and z.
C19_AxisConvention ==
  (Len(segment3) = 1 /\ Len(record.vertices) >= 2) =>
    /\ EastWestIsX(segment3[1].engine)
    /\ EastWestIsX(segment3[1].measurement)
    /\ EastWestIsX(segment3[1].renderer)

\* the start and end elevation of a converted segment
Elevations(s) == <<s.start[2], s.end[2]>>

\* C25 (as claimed): for every record with at least two vertices the
\* centerline elevations of both endpoints are the same in CrossSectionPlane,
\* in CrossSectionView and where Scene3D places the mesh, and a start depth
\* of exactly 0 gives the elevation -radius in all three.
C25_SameElevations ==
  (Len(segment3) = 1 /\ Len(record.vertices) >= 2) =>
    /\ Elevations(segment3[1].view) = Elevations(segment3[1].engine)
    /\ Elevations(segment3[1].placement) = Elevations(segment3[1].engine)
    /\ (HasDepthAttrs(record) /\ record.start_point_depth = R(0)) =>
         /\ segment3[1].engine.start[2] = Neg(segment3[1].engine.radius)
         /\ segment3[1].view.start[2] = Neg(segment3[1].engine.radius)
         /\ segment3[1].placement.start[2] = Neg(segment3[1].engine.radius)

-----------------------------------------------------------------------------
(* DistanceMeasurement: Shift+drag from one pipe to another *)

MaxMeasurements == 3

\* a mesh of one triangle, or of three vertices with no index buffer
OneTriangle(o) ==
  WithOffset([hasGeometry |-> TRUE, position |-> <<P3(0, 0, 0), P3(1, 0, 0), P3(0, 1, 0)>>,
              hasIndex |-> TRUE, index |-> Strip(1)], o)
Unindexed(o) ==
  WithOffset([hasGeometry |-> TRUE, position |-> <<P3(0, 0, 0), P3(1, 0, 0), P3(0, 1, 0)>>,
              hasIndex |-> FALSE, index |-> <<>>], o)

\* objectsRef.current: three pipes (userData.objectData set) and one object
\* that is not a pipe
MeasureObjects ==
  << [id |-> "A", hasObjectData |-> TRUE, mesh |-> OneTriangle(P3(0, 0, 0))],
     [id |-> "B", hasObjectData |-> TRUE, mesh |-> OneTriangle(P3(0, 0, 2))],
     [id |-> "C", hasObjectData |-> TRUE, mesh |-> Unindexed(P3(2, 1, 0))],
     [id |-> "ground", hasObjectData |-> FALSE, mesh |-> OneTriangle(P3(0, -1, 0))] >>

\* intersects[0].point: where the ray can meet the object
HitPoints(i) == { WorldVertices(MeasureObjects[i].mesh)[n] : n \in 1 .. 2 }

\* the fields the constructor sets
NewMeasurement ==
  [isMeasuring |-> FALSE, startPipe |-> 0, endPipe |-> 0,
   startPoint |-> <<>>, endPoint |-> <<>>,
   measurementLine |-> <<>>, closestLine |-> <<>>, previewLine |-> <<>>,
   showClosest |-> TRUE, showSpecified |-> FALSE, measurementResult |-> <<>>]

\* the Mesh objects of the scene: the stamp of the calculateDistance call
\* that made them (0 for the preview line), their type and their visibility
LineMesh(stamp, lineType, visible) ==
  [stamp |-> stamp, lineType |-> lineType, visible |-> visible]

\* clearPreviewLine(): scene.remove(this.previewLine); this.previewLine = null
ClearPreviewLine(sc, m) == sc \ { m.previewLine[n] : n \in 1 .. Len(m.previewLine) }

\* measurementData
MeasurementData(m, closestPoints) ==
  [pipeA |-> MeasureObjects[m.startPipe].id, pipeB |-> MeasureObjects[m.endPipe].id,
   specified |-> [pointA |-> m.startPoint[1], pointB |-> m.endPoint[1],
                  distanceSq |-> DistSq(m.startPoint[1], m.endPoint[1])],
   closest |-> IF closestPoints.found
               THEN <<[pointA |-> closestPoints.pointA, pointB |-> closestPoints.pointB,
                       distanceSq |-> closestPoints.distanceSq]>>
               ELSE <<>>]

\* drawMeasurementLine(..., 'red', 'specified'): this.measurementLine = lineMesh;
\* lineMesh.visible = this.showSpecified; this.scene.add(lineMesh)
DrawSpecifiedLine(m, stamp) == LineMesh(stamp, "specified", m.showSpecified)
\* drawMeasurementLine(..., 'blue', 'closest'), only if measurementData.closest
DrawClosestLine(m, stamp, closestPoints) ==
  IF closestPoints.found THEN <<LineMesh(stamp, "closest", m.showClosest)>> ELSE <<>>

\* (variant: the lines of the measurement before are taken out of the scene)
CalculateDistanceSceneReplacing(sc, m, stamp, closestPoints) ==
  ((sc \ { m.measurementLine[n] : n \in 1 .. Len(m.measurementLine) })
       \ { m.closestLine[n] : n \in 1 .. Len(m.closestLine) })
    \cup {DrawSpecifiedLine(m, stamp)}
    \cup { DrawClosestLine(m, stamp, closestPoints)[n] :
             n \in 1 .. Len(DrawClosestLine(m, stamp, closestPoints)) }

\* calculateDistance(): what the scene holds after the two drawMeasurementLine
\* calls; nothing is removed
CalculateDistanceScene(sc, m, stamp, closestPoints) ==
  sc \cup {DrawSpecifiedLine(m, stamp)}
     \cup { DrawClosestLine(m, stamp, closestPoints)[n] :
              n \in 1 .. Len(DrawClosestLine(m, stamp, closestPoints)) }

\* calculateDistance(): the fields after it; closestLine keeps the mesh of the
\* measurement before when this one has no closest points
CalculateDistance(m, stamp, closestPoints) ==
  [m EXCEPT !.measurementResult = <<MeasurementData(m, closestPoints)>>,
            !.measurementLine = <<DrawSpecifiedLine(m, stamp)>>,
            !.closestLine = IF closestPoints.found
                            THEN DrawClosestLine(m, stamp, closestPoints)
                            ELSE m.closestLine]

\* the closest points of calculateDistance:
\* if (this.startPipe.geometry && this.endPipe.geometry) getClosestPointsBetweenMeshes
ClosestPoints(m) ==
  GetClosestPointsBetweenMeshes(MeasureObjects[m.startPipe].mesh,
                                MeasureObjects[m.endPipe].mesh)

InitMeasure ==
  /\ measure = NewMeasurement
  /\ measureScene = {}
  /\ lineStamp = 0
  /\ sinceClear = <<>>
  /\ MapperIdle /\ SegIdle /\ TriIdle /\ MeshIdle /\ PlaneIdle /\ RestIdle

\* handleMouseDown: Shift + left button on an object with userData.objectData.
\* (Any other mouse down returns without a change.)
HandleMouseDown ==
  \E i \in 1 .. Len(MeasureObjects) : \E p \in HitPoints(i) :
    /\ lineStamp < MaxMeasurements
    /\ MeasureObjects[i].hasObjectData
    /\ measure' = [measure EXCEPT !.isMeasuring = TRUE, !.startPipe = i,
                                  !.startPoint = <<p>>]
    /\ UNCHANGED <<measureScene, lineStamp, sinceClear,
                   mapperVars, segVars, triVars, meshVars, planeVars, restVars>>

\* drawPreviewLine(): this.previewLine = new Mesh; scene.add(this.previewLine);
\* nothing is drawn when the ray gives no current point
DrawPreviewLine(hasPoint) == IF hasPoint THEN <<LineMesh(0, "preview", TRUE)>> ELSE <<>>

\* handleMouseMove: the preview line is removed, and one to the current point
\* is drawn if the ray meets a pipe or the plane at the start height within
\* 1000 m
HandleMouseMove ==
  \E hasPoint \in BOOLEAN :
    /\ measure.isMeasuring /\ measure.startPoint # <<>>
    /\ measure' = [measure EXCEPT !.previewLine = DrawPreviewLine(hasPoint)]
    /\ measureScene' = ClearPreviewLine(measureScene, measure)
                         \cup { DrawPreviewLine(hasPoint)[n] :
                                  n \in 1 .. Len(DrawPreviewLine(hasPoint)) }
    /\ UNCHANGED <<lineStamp, sinceClear,
                   mapperVars, segVars, triVars, meshVars, planeVars, restVars>>

\* handleMouseUp with another button than the left one
HandleMouseUpOtherButton ==
  /\ measure.isMeasuring /\ measure.startPoint # <<>>
  /\ measure' = [measure EXCEPT !.isMeasuring = FALSE, !.previewLine = <<>>]
  /\ measureScene' = ClearPreviewLine(measureScene, measure)
  /\ UNCHANGED <<lineStamp, sinceClear,
                 mapperVars, segVars, triVars, meshVars, planeVars, restVars>>

\* handleMouseUp, left button, on nothing, on an object that is not a pipe,
\* or on the start pipe: no measurement
HandleMouseUpNoPipe ==
  \E i \in 0 .. Len(MeasureObjects) :
    /\ measure.isMeasuring /\ measure.startPoint # <<>>
    /\ IF i = 0 THEN TRUE
       ELSE ~MeasureObjects[i].hasObjectData \/ i = measure.startPipe
    /\ measure' = [measure EXCEPT !.isMeasuring = FALSE, !.previewLine = <<>>]
    /\ measureScene' = ClearPreviewLine(measureScene, measure)
    /\ UNCHANGED <<lineStamp, sinceClear,
                   mapperVars, segVars, triVars, meshVars, planeVars, restVars>>

\* (variant: isMeasuring is left as it was)
MouseUpFieldsStillMeasuring(m, stamp, closestPoints) ==
  [CalculateDistance(m, stamp, closestPoints) EXCEPT !.previewLine = <<>>]

\* the fields and the scene after handleMouseUp has called calculateDistance
MouseUpFields(m, stamp, closestPoints) ==
  [CalculateDistance(m, stamp, closestPoints) EXCEPT !.isMeasuring = FALSE,
                                                       !.previewLine = <<>>]
MouseUpScene(sc, m, stamp, closestPoints) ==
  ClearPreviewLine(CalculateDistanceScene(sc, m, stamp, closestPoints), m)

\* handleMouseUp, left button, on another pipe: endPoint, endPipe,
\* calculateDistance(), isMeasuring = false, clearPreviewLine()
HandleMouseUp ==
  \E i \in 1 .. Len(MeasureObjects) : \E p \in HitPoints(i) :
    /\ measure.isMeasuring /\ measure.startPoint # <<>>
    /\ MeasureObjects[i].hasObjectData /\ i # measure.startPipe
    /\ lineStamp' = lineStamp + 1
    /\ \E closestPoints \in {ClosestPoints([measure EXCEPT !.endPipe = i])} :
         /\ measure' = MouseUpFields([measure EXCEPT !.endPipe = i, !.endPoint = <<p>>],
                                     lineStamp', closestPoints)
         /\ measureScene' = MouseUpScene(measureScene,
                                         [measure EXCEPT !.endPipe = i, !.endPoint = <<p>>],
                                         lineStamp', closestPoints)
    /\ sinceClear' = Append(sinceClear, lineStamp')
    /\ UNCHANGED <<mapperVars, segVars, triVars, meshVars, planeVars, restVars>>

\* clear(): the meshes the fields refer to are removed from the scene and
\* every field is reset
ClearMeasurement(sc, m) ==
  ClearPreviewLine(sc, m)
    \ ({ m.measurementLine[n] : n \in 1 .. Len(m.measurementLine) }
         \cup { m.closestLine[n] : n \in 1 .. Len(m.closestLine) })

\* handleKeyDown, Escape: clear()
HandleKeyDownEscape ==
  /\ measure' = NewMeasurement
  /\ measureScene' = ClearMeasurement(measureScene, measure)
  /\ sinceClear' = <<>>
  /\ UNCHANGED <<lineStamp, mapperVars, segVars, triVars, meshVars, planeVars, restVars>>

\* toggleLineDisplay(): the two flags are inverted and copied to the two lines
Toggled(m, line, show) == { [line[n] EXCEPT !.visible = show] : n \in 1 .. Len(line) }
ToggleLineDisplay(sc, m) ==
  (sc \ ({ m.measurementLine[n] : n \in 1 .. Len(m.measurementLine) }
           \cup { m.closestLine[n] : n \in 1 .. Len(m.closestLine) }))
    \cup Toggled(m, m.measurementLine, ~m.showSpecified)
    \cup Toggled(m, m.closestLine, ~m.showClosest)

\* handleKeyDown, '5': toggleLineDisplay(), which returns if there is no result
HandleKeyDown5 ==
  /\ measure.measurementResult # <<>>
  /\ measure' = [measure EXCEPT
       !.showClosest = ~measure.showClosest,
       !.showSpecified = ~measure.showSpecified,
       !.measurementLine = [n \in 1 .. Len(measure.measurementLine) |->
                              [measure.measurementLine[n] EXCEPT !.visible = ~measure.showSpecified]],
       !.closestLine = [n \in 1 .. Len(measure.closestLine) |->
                          [measure.closestLine[n] EXCEPT !.visible = ~measure.showClosest]]]
  /\ measureScene' = ToggleLineDisplay(measureScene, measure)
  /\ UNCHANGED <<lineStamp, sinceClear, mapperVars, segVars, triVars, meshVars, planeVars, restVars>>

NextMeasure ==
  \/ HandleMouseDown
  \/ HandleMouseMove
  \/ HandleMouseUpOtherButton
  \/ HandleMouseUpNoPipe
  \/ HandleMouseUp
  \/ HandleKeyDownEscape
  \/ HandleKeyDown5
SpecMeasure == InitMeasure /\ [][NextMeasure]_vars

\* the measurement lines the scene holds, and the stamp of the last measurement
MeasurementLines == { l \in measureScene : l.lineType \in {"specified", "closest"} }
LastMeasurement == sinceClear[Len(sinceClear)]

\* C14: after any sequence of completed measurements with no Esc in between,
\* the scene holds the specified-distance line and the closest-distance line
\* of the most recent measurement only, and getResult() returns that
\* measurement
C14_NewMeasurementDiscardsPrior ==
  (Len(sinceClear) >= 1 /\ ~measure.isMeasuring)
    => /\ \A l \in MeasurementLines : l.stamp = LastMeasurement
       /\ \E l \in MeasurementLines : l.lineType = "specified"
       /\ Len(measure.measurementResult) = 1
       /\ measure.measurementResult[1].pipeB = MeasureObjects[measure.endPipe].id
       /\ measure.measurementResult[1].specified.pointB = measure.endPoint[1]

\* the preview lines the scene holds
PreviewLines == { l \in measureScene : l.lineType = "preview" }

\* a step in which calculateDistance() ran (its stamp advanced) or a
\* measurement result appeared
ResultProduced ==
  \/ lineStamp' # lineStamp
  \/ /\ measure'.measurementResult # <<>>
     /\ measure'.measurementResult # measure.measurementResult

\* C28: a measurement result is produced, and the mesh-to-mesh computation
\* run, only by a left mouse-up over a pipe other than the start pipe while a
\* measurement begun by a Shift+left mouse-down on a pipe is under way; a
\* mouse-move changes nothing but the preview line; and after every mouse-up
\* handled while measuring, isMeasuring is false and the scene holds no
\* preview line.
C28_MeasureOnlyOnMouseUp ==
  [][ /\ ResultProduced
         => /\ measure.isMeasuring /\ measure.startPoint # <<>>
            /\ measure.startPipe # 0
            /\ MeasureObjects[measure.startPipe].hasObjectData
            /\ measure'.startPipe = measure.startPipe
            /\ measure'.endPipe # 0 /\ measure'.endPipe # measure.startPipe
            /\ MeasureObjects[measure'.endPipe].hasObjectData
            /\ lineStamp' = lineStamp + 1
            /\ Len(measure'.measurementResult) = 1
            /\ measure'.measurementResult[1].pipeA = MeasureObjects[measure.startPipe].id
            /\ measure'.measurementResult[1].pipeB = MeasureObjects[measure'.endPipe].id
      /\ HandleMouseMove
         => /\ ~ResultProduced
            /\ measure' = [measure EXCEPT !.previewLine = measure'.previewLine]
            /\ measureScene' \ PreviewLines' = measureScene \ PreviewLines
            /\ Cardinality(PreviewLines') <= 1
      /\ (HandleMouseUpOtherButton \/ HandleMouseUpNoPipe \/ ResultProduced)
         => /\ ~measure'.isMeasuring
            /\ measure'.previewLine = <<>>
            /\ PreviewLines' = {} ]_vars

\* a second measurement has been completed after mouse moves drew a preview
C28_Witness ==
  /\ Len(sinceClear) = 2 /\ lineStamp = 2
  /\ ~measure.isMeasuring
  /\ measure.previewLine = <<>>
  /\ Len(measure.measurementResult) = 1
  /\ measure.measurementResult[1].pipeA # measure.measurementResult[1].pipeB


-----------------------------------------------------------------------------
(* What the queries write (unnamed/part_000 calculateDistance and           *)
(* getClosestPointsBetweenMeshes, CrossSectionPlane.drawCSGCrossSection).   *)
(* JavaScript objects are references: heap maps a reference <<kind, side,   *)
(* i>> to the value stored there.  The meshes handed to a query own their   *)
(* vertex buffer (one reference per vertex), index buffer, position,        *)
(* rotation, scale and userData.objectData; the measurement owns the two    *)
(* stored click points.  A query allocates further references and writes    *)
(* through the references it holds.                                          *)

Sides == {"A", "B"}
MeshOf(side) == IF side = "A" THEN meshArgs[1] ELSE meshArgs[2]

\* intersects[0].point.clone(): a point of the clicked mesh
ClickPoint(mesh) ==
  IF Len(mesh.position) > 0 THEN WorldVertices(mesh)[1] ELSE mesh.offset

\* the references a mesh owns, and the stored click point of its side
MeshRefs(side) ==
  { <<"buffer", side, i>> : i \in 1 .. Len(MeshOf(side).position) }
    \cup { <<k, side, 0>> : k \in {"index", "position", "rotation", "scale", "objectData"} }
OwnedRefs == UNION { MeshRefs(side) \cup { <<"clickPoint", side, 0>> } : side \in Sides }

OwnedValue(r) ==
  LET mesh == MeshOf(r[2])
  IN  CASE r[1] = "buffer"     -> mesh.position[r[3]]
        [] r[1] = "index"      -> mesh.index
        [] r[1] = "position"   -> mesh.offset
        [] r[1] = "rotation"   -> P3(0, 0, 0)
        [] r[1] = "scale"      -> P3(1, 1, 1)
        [] r[1] = "objectData" -> <<r[2]>>
        [] r[1] = "clickPoint" -> ClickPoint(mesh)

HeapOf == [r \in OwnedRefs |-> OwnedValue(r)]

\* a write of value through reference ref; an allocation is a write through
\* a reference the heap did not hold
Cell(ref, value) == [ref |-> ref, value |-> value]
HeapAfter(h, cells) ==
  [r \in DOMAIN h \cup { c.ref : c \in cells } |->
     IF \E c \in cells : c.ref = r
     THEN (CHOOSE c \in cells : c.ref = r).value
     ELSE h[r]]

\* (variant: localToWorld is applied to the vertex held in the buffer)
WorldVertexRefInPlace(side, i) == <<"buffer", side, i>>

\* const v = new THREE.Vector3(positionA.getX(i), ...); meshA.localToWorld(v)
WorldVertexRef(side, i) == <<"vertices", side, i>>

\* verticesA / verticesB as cells: localToWorld writes the world coordinates
\* through v
WorldVertexCells(side) ==
  { Cell(WorldVertexRef(side, i), WorldVertices(MeshOf(side))[i]) :
      i \in 1 .. Len(MeshOf(side).position) }

\* The candidates of the three passes with the reference each point is held
\* by: the vertex of verticesA / verticesB itself, the closestPoint that
\* getClosestPointToTriangle builds with v0.clone(), the pointA / pointB that
\* getClosestPointsBetweenLineSegments builds with a1.clone() / b1.clone().
VertexFaceCells(cands, tB) ==
  [k \in 1 .. Len(cands) |->
     [distanceSq |-> cands[k].distanceSq,
      pointA |-> Cell(WorldVertexRef("A", ((k - 1) \div tB) + 1), cands[k].pointA),
      pointB |-> Cell(<<"closestPoint", "B", k>>, cands[k].pointB)]]
FaceVertexCells(cands, tA) ==
  [k \in 1 .. Len(cands) |->
     [distanceSq |-> cands[k].distanceSq,
      pointA |-> Cell(<<"closestPoint", "A", k>>, cands[k].pointA),
      pointB |-> Cell(WorldVertexRef("B", ((k - 1) \div tA) + 1), cands[k].pointB)]]
EdgeEdgeCells(cands) ==
  [k \in 1 .. Len(cands) |->
     [distanceSq |-> cands[k].distanceSq,
      pointA |-> Cell(<<"segmentPoint", "A", k>>, cands[k].pointA),
      pointB |-> Cell(<<"segmentPoint", "B", k>>, cands[k].pointB)]]
CandidateCells(meshA, meshB) ==
  VertexFaceCells(VertexFaceCandidates(meshA, meshB), TriCount(meshB))
    \o FaceVertexCells(FaceVertexCandidates(meshA, meshB), TriCount(meshA))
    \o EdgeEdgeCells(EdgeEdgeCandidates(meshA, meshB))

\* getClosestPointsBetweenMeshes on references: closestPointA / closestPointB
\* are the references kept by the comparison with minDistance
ClosestCells(meshA, meshB) ==
  IF ~meshA.hasGeometry \/ ~meshB.hasGeometry THEN NullResult
  ELSE ResultOrNull(KeepMinimum(CandidateCells(meshA, meshB), 1, NoneYet))

InitFrame ==
  /\ meshArgs \in { <<WithOffset(gA, oA), WithOffset(gB, oB)>> :
                      gA \in Geometries, oA \in OffsetsA, gB \in Geometries, oB \in OffsetsB }
  /\ meshRet = <<>>
  /\ heap = HeapOf
  /\ frameRet = <<>>
  /\ MapperIdle /\ SegIdle /\ TriIdle /\ PlaneIdle /\ MeasureIdle /\ ViewIdle
  /\ SceneIdle

\* calculateDistance(): specifiedPointA = this.startPoint.clone(), the same
\* for B; closestPoints = getClosestPointsBetweenMeshes(startPipe, endPipe)
\* when both pipes have a geometry; measurementResult holds the references.
CalculateDistanceFrame ==
  /\ frameRet = <<>>
  /\ \E closest \in { IF meshArgs[1].hasGeometry /\ meshArgs[2].hasGeometry
                      THEN ClosestCells(meshArgs[1], meshArgs[2]) ELSE NullResult } :
     \E specified \in {{ Cell(<<"specifiedPoint", side, 0>>, heap[<<"clickPoint", side, 0>>]) :
                            side \in Sides }},
        vertices \in { IF meshArgs[1].hasGeometry /\ meshArgs[2].hasGeometry
                       THEN WorldVertexCells("A") \cup WorldVertexCells("B") ELSE {} },
        kept \in { IF closest.found THEN {closest.pointA, closest.pointB} ELSE {} } :
     \E written \in {HeapAfter(heap, specified \cup vertices)} :
       /\ heap' = HeapAfter(written, kept)
       /\ frameRet' = <<[query |-> "distance",
                         specified |-> { c.ref : c \in specified },
                         closest |-> IF closest.found
                                     THEN <<closest.pointA.ref, closest.pointB.ref>>
                                     ELSE <<>>]>>
  /\ UNCHANGED <<meshVars, mapperVars, segVars, triVars, planeVars, measureVars, viewVars,
               sceneVars>>

\* (variant: the Mesh handed to CSG shares the pipe's geometry)
GeometryRefShared(side, i) == <<"buffer", side, i>>

\* pipeObject.geometry.clone()
GeometryRef(side, i) == <<"cloneBuffer", side, i>>

\* drawCSGCrossSection(pipeObject, crossSectionZ, color): the Mesh built from
\* the clone takes copies of position, rotation and scale; CSG.intersect is
\* library code that may bake the operand's matrix into the geometry it is
\* handed (transformed) or leave it alone.
DrawCSGCrossSectionFrame ==
  /\ frameRet = <<>>
  /\ \E side \in Sides, transformed \in BOOLEAN :
     \E mesh \in {MeshOf(side)} :
     \E copies \in {{ Cell(<<"pipeMesh", side, 0>>,
                          <<heap[<<"position", side, 0>>], heap[<<"rotation", side, 0>>],
                            heap[<<"scale", side, 0>>]>>) }},
        clone \in {{ Cell(GeometryRef(side, i), heap[<<"buffer", side, i>>]) :
                       i \in 1 .. Len(mesh.position) }},
        baked \in {{ Cell(GeometryRef(side, i),
                          IF transformed THEN LocalToWorld(mesh, heap[<<"buffer", side, i>>])
                          ELSE heap[<<"buffer", side, i>>]) :
                       i \in 1 .. Len(mesh.position) }} :
     \E built \in {HeapAfter(heap, copies \cup clone)} :
       /\ mesh.hasGeometry
       /\ heap' = HeapAfter(built, baked)
       /\ frameRet' = <<[query |-> "section", specified |-> {}, closest |-> <<>>]>>
  /\ UNCHANGED <<meshVars, mapperVars, segVars, triVars, planeVars, measureVars, viewVars,
               sceneVars>>

NextFrame == CalculateDistanceFrame \/ DrawCSGCrossSectionFrame
SpecFrame == InitFrame /\ [][NextFrame]_vars

ReturnedRefs ==
  IF frameRet = <<>> THEN {}
  ELSE frameRet[1].specified \cup { frameRet[1].closest[n] : n \in 1 .. Len(frameRet[1].closest) }

\* C21: after a closest-point or cross-section query every reference the two
\* meshes own (vertex buffer, index buffer, position, rotation, scale, record
\* data) and both stored click points hold the value they held before the
\* query, and every point the query returned is held by a reference that was
\* allocated by the query: none is a reference of a mesh or a stored click
\* point.
C21_QueriesLeaveInputs ==
  frameRet # <<>> =>
    /\ \A r \in OwnedRefs : r \in DOMAIN heap /\ heap[r] = OwnedValue(r)
    /\ \A r \in ReturnedRefs : r \notin OwnedRefs /\ r \in DOMAIN heap
    /\ frameRet[1].query = "distance" =>
         /\ \A side \in Sides :
              heap[<<"specifiedPoint", side, 0>>] = heap[<<"clickPoint", side, 0>>]
         /\ LET result == GetClosestPointsBetweenMeshes(meshArgs[1], meshArgs[2])
            IN  IF result.found
                THEN /\ Len(frameRet[1].closest) = 2
                     /\ heap[frameRet[1].closest[1]] = result.pointA
                     /\ heap[frameRet[1].closest[2]] = result.pointB
                ELSE frameRet[1].closest = <<>>

\* a measurement of a moved mesh whose nearest pair starts at one of the
\* world vertices of A
C21_Witness ==
  /\ frameRet # <<>>
  /\ frameRet[1].query = "distance"
  /\ Len(frameRet[1].closest) = 2
  /\ frameRet[1].closest[1][1] = "vertices"
  /\ meshArgs[1].offset # P3(0, 0, 0)
  /\ heap[frameRet[1].closest[1]] # heap[<<"buffer", "A", frameRet[1].closest[1][3]>>]


-----------------------------------------------------------------------------
(* CrossSectionView: the angle and interval inputs and generateCrossSections *)
(* The while loop of generateCrossSections is one step per iteration, so    *)
(* that a loop that does not end is a behaviour of the model.               *)

\* the largest whole interval typed into the interval input
MaxInterval == 2
\* the number of sections the array holds before sections.push fails for
\* lack of memory
MaxSections == 8

\* Math.sqrt, exact on squares of rationals (the lengths of the model)
RECURSIVE IntRoot(_, _)
IntRoot(n, k) == IF k * k >= n THEN k ELSE IntRoot(n, k + 1)
Sqrt(x) ==
  IF IsNaN(x) \/ Lt(x, R(0)) THEN NaN
  ELSE IF ~IsFinite(x) THEN PInf
  ELSE Q(IntRoot(x[1], 0), IntRoot(x[2], 0))

\* Vector3.length, Vector3.normalize: divideScalar(this.length() || 1)
VLength(v) == Sqrt(Dot(v, v))
Normalize(v) ==
  LET len == VLength(v)
  IN  IF IsNaN(len) \/ len = R(0) THEN v ELSE VScale(v, Div(R(1), len))

\* x || fallback on numbers: NaN and 0 are falsy
OrDefault(x, fallback) == IF IsNaN(x) \/ x = R(0) THEN fallback ELSE x

\* Math.cos / Math.sin of THREE.MathUtils.degToRad(angle) at the whole
\* quarter turns of the model (the floating-point values differ from these
\* by at most 2.5e-16)
CosDeg(angle) ==
  CASE angle[1] % 360 = 0 -> R(1) [] angle[1] % 360 = 90 -> R(0)
    [] angle[1] % 360 = 180 -> R(-1) [] angle[1] % 360 = 270 -> R(0)
SinDeg(angle) ==
  CASE angle[1] % 360 = 0 -> R(0) [] angle[1] % 360 = 90 -> R(1)
    [] angle[1] % 360 = 180 -> R(0) [] angle[1] % 360 = 270 -> R(-1)

\* parseFloat(e.target.value) for what can be typed: "" gives NaN
TypedAngles == {NaN, R(0), R(90), R(180)}
TypedIntervals == {NaN} \cup { R(k) : k \in -1 .. MaxInterval }

\* the records a selected pipe can carry: level, sloped (3-4-5), vertical,
\* of length 0, diagonal, and one with a single vertex
ViewRecords ==
  { [radius |-> Q(3, 10), start_point_depth |-> Null, end_point_depth |-> Null,
     vertices |-> <<P3(0, 0, 0), P3(3, 0, 0)>>],
    [radius |-> Q(3, 10), start_point_depth |-> Null, end_point_depth |-> Null,
     vertices |-> <<P3(0, 0, 0), P3(4, 0, 3)>>],
    [radius |-> Q(3, 10), start_point_depth |-> R(100), end_point_depth |-> R(300),
     vertices |-> <<P3(1, 1, 0), P3(1, 1, 0)>>],
    [radius |-> Q(3, 10), start_point_depth |-> R(100), end_point_depth |-> R(100),
     vertices |-> <<P3(1, 1, 0), P3(1, 1, 0)>>],
    [radius |-> Q(3, 10), start_point_depth |-> R(200), end_point_depth |-> R(200),
     vertices |-> <<P3(0, 0, 0), P3(3, 4, 0)>>],
    [radius |-> Null, start_point_depth |-> R(200), end_point_depth |-> R(200),
     vertices |-> <<P3(0, 0, 0)>>] }

\* useState(90), useState(10), useState('始点'), useState(null), useState([])
NewView ==
  [angle |-> R(90), interval |-> R(10), startPoint |-> "start", selectedObject |-> Null,
   generatedSections |-> <<>>, status |-> "idle", alert |-> "none", run |-> <<>>]

InitView ==
  /\ view = NewView
  /\ MapperIdle /\ SegIdle /\ TriIdle /\ MeshIdle /\ PlaneIdle /\ MeasureIdle /\ FrameIdle
  /\ SceneIdle

\* no handler starts while generateCrossSections runs (one thread), and
\* none after the page has run out of memory; alert is the dialog the last
\* handler raised, dismissed before the next one runs; status is "done" when
\* the last handler was a generateCrossSections that returned
Ready == view.status \in {"idle", "done"}

\* onChange={(e) => setAngle(parseFloat(e.target.value) || 90)}
SetAngle ==
  /\ Ready
  /\ \E typed \in TypedAngles : view' = [view EXCEPT !.angle = OrDefault(typed, R(90)), !.alert = "none", !.status = "idle"]
  /\ UNCHANGED <<mapperVars, segVars, triVars, meshVars, planeVars, measureVars, frameVars,
               sceneVars>>

\* onChange={(e) => setInterval(parseFloat(e.target.value) || 10)}
SetInterval ==
  /\ Ready
  /\ \E typed \in TypedIntervals : view' = [view EXCEPT !.interval = OrDefault(typed, R(10)), !.alert = "none", !.status = "idle"]
  /\ UNCHANGED <<mapperVars, segVars, triVars, meshVars, planeVars, measureVars, frameVars,
               sceneVars>>

\* the start point select: '始点' or '終点'
SetStartPoint ==
  /\ Ready
  /\ \E choice \in {"start", "end"} : view' = [view EXCEPT !.startPoint = choice, !.alert = "none", !.status = "idle"]
  /\ UNCHANGED <<mapperVars, segVars, triVars, meshVars, planeVars, measureVars, frameVars,
               sceneVars>>

\* handleSelectedObjectChange(objectData, mesh)
HandleSelectedObjectChange ==
  /\ Ready
  /\ \E objectData \in ViewRecords \cup {Null} : view' = [view EXCEPT !.selectedObject = objectData, !.alert = "none", !.status = "idle"]
  /\ UNCHANGED <<mapperVars, segVars, triVars, meshVars, planeVars, measureVars, frameVars,
               sceneVars>>

\* normal = pipeDirection; tangent = normal x up, or right x normal when that
\* is shorter than 0.1; binormal = normal x tangent;
\* rotatedNormal = tangent * cos(angleRad) + binormal * sin(angleRad), each normalized
RotatedNormal(pipeDirection, angle) ==
  LET up       == P3(0, 1, 0)
      right    == P3(1, 0, 0)
      t0       == Normalize(Cross(pipeDirection, up))
      tangent  == IF Lt(VLength(t0), Q(1, 10)) THEN Normalize(Cross(right, pipeDirection)) ELSE t0
      binormal == Normalize(Cross(pipeDirection, tangent))
  IN  Normalize(VAdd(VScale(tangent, CosDeg(angle)), VScale(binormal, SinDeg(angle))))

\* generateCrossSections up to the first test of the while loop: the two
\* alerts, start and end, pipeDirection, pipeLength, currentDistance = 0,
\* sectionIndex = 1.  rotatedNormal, which every iteration computes anew
\* from pipeDirection and angleRad alone, is kept with them.
GenerateCrossSections ==
  /\ Ready
  /\ IF view.selectedObject = Null
     THEN view' = [view EXCEPT !.alert = "select", !.status = "idle"]
     ELSE IF Len(view.selectedObject.vertices) < 2
     THEN view' = [view EXCEPT !.alert = "vertices", !.status = "idle"]
     ELSE LET ends          == GetPipeStartEnd(view.selectedObject)
              startPosition == IF view.startPoint = "start" THEN ends.start ELSE ends.end
              endPosition   == IF view.startPoint = "start" THEN ends.end ELSE ends.start
              pipeDirection == Normalize(VSub(endPosition, startPosition))
          IN  view' = [view EXCEPT
                !.status = "generating", !.alert = "none",
                !.run = [startPosition |-> startPosition,
                         pipeDirection |-> pipeDirection,
                         rotatedNormal |-> RotatedNormal(pipeDirection, view.angle),
                         pipeLength |-> Sqrt(DistSq(startPosition, endPosition)),
                         currentDistance |-> R(0), sectionIndex |-> 1, sections |-> <<>>]]
  /\ UNCHANGED <<mapperVars, segVars, triVars, meshVars, planeVars, measureVars, frameVars,
               sceneVars>>

\* String(sectionIndex).padStart(3, '0') as decimal digits
RECURSIVE Digits(_)
Digits(n) == IF n < 10 THEN <<n>> ELSE Append(Digits(n \div 10), n % 10)
PadStart3(digits) ==
  IF Len(digits) >= 3 THEN digits ELSE [k \in 1 .. 3 - Len(digits) |-> 0] \o digits

\* the object pushed by one iteration
Section(run) ==
  LET sectionPosition == VAdd(run.startPosition, VScale(run.pipeDirection, run.currentDistance))
  IN  [id |-> PadStart3(Digits(run.sectionIndex)),
       position |-> sectionPosition,
       normal |-> run.rotatedNormal,
       pipeDirection |-> run.pipeDirection,
       z |-> sectionPosition[3],
       index |-> run.sectionIndex - 1]

\* currentDistance += interval
NextDistance(currentDistance, interval) == Add(currentDistance, interval)

\* one iteration of while (currentDistance <= pipeLength): sections.push,
\* currentDistance += interval, sectionIndex++
SectionLoopStep ==
  /\ view.status = "generating"
  /\ Le(view.run.currentDistance, view.run.pipeLength)
  /\ Len(view.run.sections) < MaxSections
  /\ \E section \in {Section(view.run)},
        distance \in {NextDistance(view.run.currentDistance, view.interval)} :
       view' = [view EXCEPT !.run =
                  [startPosition |-> view.run.startPosition,
                   pipeDirection |-> view.run.pipeDirection,
                   rotatedNormal |-> view.run.rotatedNormal,
                   pipeLength |-> view.run.pipeLength,
                   currentDistance |-> distance,
                   sectionIndex |-> view.run.sectionIndex + 1,
                   sections |-> Append(view.run.sections, section)]]
  /\ UNCHANGED <<mapperVars, segVars, triVars, meshVars, planeVars, measureVars, frameVars,
               sceneVars>>

\* sections.push on a full array: the handler (and the page) ends without
\* setGeneratedSections
SectionLoopOutOfMemory ==
  /\ view.status = "generating"
  /\ Le(view.run.currentDistance, view.run.pipeLength)
  /\ Len(view.run.sections) >= MaxSections
  /\ view' = [view EXCEPT !.status = "outOfMemory", !.run = <<>>]
  /\ UNCHANGED <<mapperVars, segVars, triVars, meshVars, planeVars, measureVars, frameVars,
               sceneVars>>

\* the loop test fails: setGeneratedSections(sections)
SectionLoopExit ==
  /\ view.status = "generating"
  /\ ~Le(view.run.currentDistance, view.run.pipeLength)
  /\ view' = [view EXCEPT !.status = "done",
                          !.generatedSections = view.run.sections, !.run = <<>>]
  /\ UNCHANGED <<mapperVars, segVars, triVars, meshVars, planeVars, measureVars, frameVars,
               sceneVars>>

NextView ==
  \/ SetAngle \/ SetInterval \/ SetStartPoint \/ HandleSelectedObjectChange
  \/ GenerateCrossSections \/ SectionLoopStep \/ SectionLoopOutOfMemory \/ SectionLoopExit
SpecView == InitView /\ [][NextView]_vars

\* The same handlers with the angle and the start point left at their
\* initial values; the engine keeps running the handler it has started.
NextViewLive ==
  \/ SetInterval \/ HandleSelectedObjectChange
  \/ GenerateCrossSections \/ SectionLoopStep \/ SectionLoopOutOfMemory \/ SectionLoopExit
SpecViewLive ==
  /\ InitView /\ [][NextViewLive]_vars
  /\ WF_vars(SectionLoopStep) /\ WF_vars(SectionLoopOutOfMemory) /\ WF_vars(SectionLoopExit)

\* drawCSGCrossSection: new THREE.BoxGeometry(1000, 1000, 0.01), the slab is
\* thin along z, so the plane it stands for has its normal along z
SlabSize == <<R(1000), R(1000), Q(1, 100)>>
SlabNormal ==
  <<IF Lt(SlabSize[1], SlabSize[2]) /\ Lt(SlabSize[1], SlabSize[3]) THEN R(1) ELSE R(0),
    IF Le(SlabSize[2], SlabSize[1]) /\ Lt(SlabSize[2], SlabSize[3]) THEN R(1) ELSE R(0),
    IF Le(SlabSize[3], SlabSize[1]) /\ Le(SlabSize[3], SlabSize[2]) THEN R(1) ELSE R(0)>>

\* C22 (as claimed): every cutting plane is vertical: the slab's normal and
\* the normal of every section pushed by generateCrossSections, at every
\* stored angle and for every pipe direction, has y component 0.
C22_PlanesVertical ==
  /\ SlabNormal[2] = R(0)
  /\ view.status = "generating" =>
       \A n \in 1 .. Len(view.run.sections) : view.run.sections[n].normal[2] = R(0)
  /\ \A n \in 1 .. Len(view.generatedSections) : view.generatedSections[n].normal[2] = R(0)

\* the sections are numbered 001, 002, ... and lie at 0, interval,
\* 2 * interval, ... from the start, none beyond the pipe length
SectionsAsClaimed ==
  LET ends          == GetPipeStartEnd(view.selectedObject)
      startPosition == IF view.startPoint = "start" THEN ends.start ELSE ends.end
      endPosition   == IF view.startPoint = "start" THEN ends.end ELSE ends.start
      direction     == Normalize(VSub(endPosition, startPosition))
  IN  \A n \in 1 .. Len(view.generatedSections) :
        LET distance == Mul(R(n - 1), view.interval)
        IN  /\ view.generatedSections[n].id = PadStart3(Digits(n))
            /\ view.generatedSections[n].position = VAdd(startPosition, VScale(direction, distance))
            /\ Le(distance, Sqrt(DistSq(startPosition, endPosition)))

\* C29 (as claimed): generateCrossSections, once started, ends with the
\* sections stored, for every interval the change handler can store.
C29_GenerateTerminates ==
  (view.status = "generating") ~> (view.status = "done" /\ SectionsAsClaimed)

-----------------------------------------------------------------------------
(* Scene3D: the mouse, click and key listeners of the mount effect, and the
   Esc block of the frame loop.  The listeners of one event run one after
   the other in the order of their registration: DistanceMeasurement.enable
   first (Scene3D.js 1170), then Scene3D's own (1184-1189); the click of a
   left button is sent with its mouseup, before anything else runs.  The
   effect runs once (its dependency userPositions does not change), so
   handlers and frame loop see the props and the React state of the render
   the effect ran in. *)

\* how far the pointer can move, and how far the pipes can be dragged in all
MaxDrag == 1

\* the calculateDistance calls of one run
MaxSceneMeasurements == 1

\* objectsRef.current: the pipes A and B and the ground.  Object k has the
\* mesh of MeasureObjects[k]; a pipe carries the record SceneCatalog[k] (one
\* of three vertices, one of two) in userData.objectData
SceneCatalog == SubSeq(Palette, 4, 5)
SceneObjects == {1, 2, 4}
ScenePipes == { k \in SceneObjects : MeasureObjects[k].hasObjectData }

\* intersects[0]: the object under the pointer (0: none) and the point hit
SceneHits == {0} \cup SceneObjects
ScenePoint(hit) == IF hit = 0 THEN Null ELSE WorldVertices(MeasureObjects[hit].mesh)[1]

\* closestPoints of calculateDistance for each start and end pipe of the
\* scene, with the meshes as they were built (a drag moves `position`, a
\* place along the drag plane, and leaves the triangles of the model alone)
SceneClosestPoints ==
  [a \in ScenePipes |->
     [b \in ScenePipes |->
        GetClosestPointsBetweenMeshes(MeasureObjects[a].mesh, MeasureObjects[b].mesh)]]

\* the refs and the state after the first render and the mount effect.
\* position and dragStartPosition are places along the drag plane;
\* objectData[k] is geometry[0].center of the record of pipe k;
\* closestPoints is what calculateDistance finds between the meshes of the
\* scene, worked out when they are built and read at each mouse up.
NewScene3D(crossSectionMode) ==
  [enableCrossSectionMode |-> crossSectionMode,
   selectedMesh |-> 0, selectedObject |-> <<>>,
   isDragging |-> FALSE, dragStartPosition |-> 0,
   position |-> [k \in ScenePipes |-> 0],
   objectData |-> [k \in ScenePipes |-> 0],
   keysPressed |-> [escape |-> FALSE],
   measurementResult |-> <<>>,
   closure |-> [measurementResult |-> <<>>],
   leftDown |-> FALSE,
   closestPoints |-> SceneClosestPoints,
   exception |-> "none",
   escPress |-> <<>>]

InitScene ==
  /\ scene3d \in { NewScene3D(mode) : mode \in BOOLEAN }
  /\ measure = NewMeasurement
  /\ measureScene = {}
  /\ lineStamp = 0
  /\ sinceClear = <<>>
  /\ objects = SceneCatalog
  /\ depthLines = <<>>
  /\ depthLabels = <<>>
  /\ crossSections = <<>>
  /\ lastQuery = <<>>
  /\ scene = {}
  /\ epoch = 0
  /\ MapperIdle /\ SegIdle /\ TriIdle /\ MeshIdle /\ FrameIdle /\ ViewIdle

\* the distance the pipes have been moved from where they were built
RECURSIVE Dragged(_, _)
Dragged(position, pipes) ==
  IF pipes = {} THEN 0
  ELSE LET k == CHOOSE k \in pipes : TRUE
       IN  Abs(position[k]) + Dragged(position, pipes \ {k})

\* Scene3D.handleMouseDown: left button, no Shift, on the selected pipe with
\* Ctrl held: the drag starts where the ray through the pointer (at x) meets
\* the drag plane
SceneMouseDown(s, button, shiftKey, ctrlKey, hit, x) ==
  IF /\ button = 0 /\ ~shiftKey
     /\ hit \in ScenePipes /\ hit = s.selectedMesh /\ ctrlKey
  THEN [s EXCEPT !.isDragging = TRUE, !.dragStartPosition = x]
  ELSE s

\* The fields of an event are drawn only where a listener reads them:
\* ctrlKey and the pointer's place where handleMouseDown reaches its drag
\* test, the pointer's place where handleMouseMove drags, Shift and the
\* object hit on the left button alone.
DragTest(s, shiftKey, hit) == ~shiftKey /\ hit \in ScenePipes /\ hit = s.selectedMesh

\* a mousedown of the left button on the canvas:
\* DistanceMeasurement.handleMouseDown, then Scene3D.handleMouseDown (both
\* return at once for another button)
MouseDown ==
  \E shiftKey \in BOOLEAN, hit \in SceneHits :
  \E ctrlKey \in (IF DragTest(scene3d, shiftKey, hit) THEN BOOLEAN ELSE {FALSE}) :
  \E x \in (IF ctrlKey THEN 0 .. MaxDrag ELSE {0}) :
    /\ ~scene3d.leftDown
    /\ (shiftKey /\ hit \in ScenePipes) => lineStamp < MaxSceneMeasurements
    /\ measure' = IF shiftKey /\ hit \in ScenePipes
                  THEN [measure EXCEPT !.isMeasuring = TRUE, !.startPipe = hit,
                                       !.startPoint = <<ScenePoint(hit)>>]
                  ELSE measure
    /\ scene3d' = [SceneMouseDown(scene3d, 0, shiftKey, ctrlKey, hit, x)
                     EXCEPT !.leftDown = TRUE]
    /\ UNCHANGED <<measureScene, lineStamp, sinceClear, planeVars,
                   mapperVars, segVars, triVars, meshVars, frameVars, viewVars>>

\* updatePipelineInfoDisplay(): setSelectedObject(a copy of the selected
\* mesh's record with geometry[0].center at the mesh's position)
UpdatePipelineInfoDisplay(s) ==
  IF s.selectedMesh # 0
  THEN [s EXCEPT !.selectedObject =
          <<[pipe |-> s.selectedMesh, center |-> s.position[s.selectedMesh]]>>]
  ELSE s

\* Scene3D.handleMouseMove: with Shift held nothing; while dragging the
\* selected mesh moves by the offset of the pointer (at x) from
\* dragStartPosition, which becomes the pointer's place
SceneMouseMove(s, shiftKey, x) ==
  IF ~shiftKey /\ s.isDragging /\ s.selectedMesh # 0
  THEN UpdatePipelineInfoDisplay(
         [s EXCEPT !.position[s.selectedMesh] = @ + (x - s.dragStartPosition),
                   !.dragStartPosition = x])
  ELSE s

\* a mousemove over the canvas: DistanceMeasurement.handleMouseMove, then
\* Scene3D.handleMouseMove
MouseMove ==
  \E shiftKey \in BOOLEAN :
  \E x \in (IF ~shiftKey /\ scene3d.isDragging /\ scene3d.selectedMesh # 0
            THEN 0 .. MaxDrag ELSE {0}),
     hasPoint \in (IF measure.isMeasuring /\ measure.startPoint # <<>>
                   THEN BOOLEAN ELSE {FALSE}) :
    /\ \E next \in {SceneMouseMove(scene3d, shiftKey, x)} :
         /\ Dragged(next.position, ScenePipes) <= MaxDrag
         /\ scene3d' = next
    /\ IF measure.isMeasuring /\ measure.startPoint # <<>>
       THEN /\ measure' = [measure EXCEPT !.previewLine = DrawPreviewLine(hasPoint)]
            /\ measureScene' = ClearPreviewLine(measureScene, measure)
                                 \cup { DrawPreviewLine(hasPoint)[n] :
                                          n \in 1 .. Len(DrawPreviewLine(hasPoint)) }
       ELSE UNCHANGED <<measure, measureScene>>
    /\ UNCHANGED <<lineStamp, sinceClear, planeVars,
                   mapperVars, segVars, triVars, meshVars, frameVars, viewVars>>

\* Scene3D.handleMouseUp: left button only; with Shift held it returns at
\* once; otherwise the record of a dragged mesh takes the mesh's position and
\* isDragging becomes false
SceneMouseUp(s, button, shiftKey) ==
  IF button # 0 THEN s
  ELSE IF shiftKey THEN s
  ELSE IF s.isDragging /\ s.selectedMesh # 0
       THEN [s EXCEPT !.objectData[s.selectedMesh] = s.position[s.selectedMesh],
                      !.isDragging = FALSE]
       ELSE [s EXCEPT !.isDragging = FALSE]

\* the arguments of the createCrossSection call of handleClick
CreateCrossSectionArguments(clickedObject, point) == <<clickedObject>>

\* a parameter with no argument is undefined
Parameter(arguments, n) == IF n <= Len(arguments) THEN arguments[n] ELSE Null

\* drawClickedPipeCrossSection(pipeObject, clickPoint): a record with fewer
\* than two vertices returns at once; reading clickPoint.z of an undefined
\* clickPoint throws a TypeError before anything is drawn
DrawClickedPipeCrossSectionAt(objs, pipeObject, clickPoint) ==
  IF ~PipeSegment(objs[pipeObject].objectData).ok
  THEN [exception |-> "none", drawn |-> NoDrawing]
  ELSE IF clickPoint = Null
  THEN [exception |-> "TypeError", drawn |-> NoDrawing]
  ELSE [exception |-> "none",
        drawn |-> DrawClickedPipeCrossSection(objs, pipeObject, clickPoint[3])]

\* Scene3D.handleClick, run with the refs and state s: nothing with Shift
\* held or off the pipes; in cross-section mode
\* createCrossSection(clickedObject), which clears and draws; otherwise the
\* pipe is selected
HandleClick(s, hit, shiftKey) ==
  IF shiftKey \/ hit \notin ScenePipes
  THEN /\ scene3d' = [s EXCEPT !.exception = "none"]
       /\ UNCHANGED planeVars
  ELSE IF s.enableCrossSectionMode
  THEN \E arguments \in {CreateCrossSectionArguments(hit, ScenePoint(hit))} :
       \E call \in {DrawClickedPipeCrossSectionAt(objects, Parameter(arguments, 1),
                                                   Parameter(arguments, 2))} :
         /\ depthLines' = call.drawn.depthLines
         /\ depthLabels' = LabelsOf(call.drawn.depthLines, 1)
         /\ crossSections' = call.drawn.crossSections
         /\ lastQuery' = <<[pipe |-> Parameter(arguments, 1),
                            clickZ |-> IF Parameter(arguments, 2) = Null THEN Null
                                       ELSE Parameter(arguments, 2)[3]]>>
         /\ epoch' = 1 - epoch
         /\ scene' = Clear(scene, epoch, depthLines, depthLabels, crossSections)
                       \cup SceneChildren(epoch', depthLines', depthLabels', crossSections')
         /\ scene3d' = [s EXCEPT !.exception = call.exception]
         /\ UNCHANGED objects
  ELSE /\ scene3d' = [s EXCEPT
            !.exception = "none",
            !.selectedMesh = hit,
            !.selectedObject = <<[pipe |-> hit, center |-> s.objectData[hit]]>>]
       /\ UNCHANGED planeVars

\* a mouseup on the canvas: DistanceMeasurement.handleMouseUp (its result
\* goes to setMeasurementResult), then Scene3D.handleMouseUp; for the left
\* button the click follows: Scene3D.handleClick
MouseUp ==
  \E button \in {0, 2} :
  \E hit \in (IF button = 0 THEN SceneHits ELSE {0}) :
    /\ button = 0 => scene3d.leftDown
    /\ IF ~(measure.isMeasuring /\ measure.startPoint # <<>>)
       THEN UNCHANGED <<measure, measureScene, lineStamp, sinceClear>>
       ELSE IF button = 0 /\ hit \in ScenePipes /\ hit # measure.startPipe
       THEN /\ lineStamp < MaxSceneMeasurements
            /\ lineStamp' = lineStamp + 1
            /\ sinceClear' = Append(sinceClear, lineStamp')
            /\ \E m \in {[measure EXCEPT !.endPipe = hit, !.endPoint = <<ScenePoint(hit)>>]} :
               \E closestPoints \in {scene3d.closestPoints[m.startPipe][m.endPipe]} :
                 /\ measure' = MouseUpFields(m, lineStamp', closestPoints)
                 /\ measureScene' = MouseUpScene(measureScene, m, lineStamp', closestPoints)
       ELSE /\ measure' = [measure EXCEPT !.isMeasuring = FALSE, !.previewLine = <<>>]
            /\ measureScene' = ClearPreviewLine(measureScene, measure)
            /\ UNCHANGED <<lineStamp, sinceClear>>
    /\ \E shiftKey \in (IF button = 0 THEN BOOLEAN ELSE {FALSE}) :
       \E released \in {[SceneMouseUp(scene3d, button, shiftKey) EXCEPT
                            !.measurementResult = IF lineStamp' # lineStamp
                                                  THEN measure'.measurementResult ELSE @,
                            !.leftDown = IF button = 0 THEN FALSE ELSE @]} :
         IF button = 0
         THEN HandleClick(released, hit, shiftKey)
         ELSE /\ scene3d' = released
              /\ UNCHANGED planeVars
    /\ UNCHANGED <<mapperVars, segVars, triVars, meshVars, frameVars, viewVars>>

\* a keydown of Esc on window: DistanceMeasurement.handleKeyDown clears the
\* measurement and calls setMeasurementResult(null); Scene3D.handleKeyDown
\* notes the key unless an input field has the focus.  escPress remembers,
\* while the key is noted, whether a result existed when it went down.
KeyDownEscape ==
  \E inInput \in BOOLEAN :
    /\ measure' = NewMeasurement
    /\ measureScene' = ClearMeasurement(measureScene, measure)
    /\ sinceClear' = <<>>
    /\ scene3d' = [scene3d EXCEPT
         !.measurementResult = <<>>,
         !.keysPressed.escape = IF inInput THEN @ ELSE TRUE,
         !.escPress = IF inInput THEN @
                      ELSE <<[result |-> scene3d.measurementResult # <<>>]>>]
    /\ UNCHANGED <<lineStamp, planeVars, mapperVars, segVars, triVars, meshVars,
                   frameVars, viewVars>>

\* Scene3D.handleKeyUp of Esc
KeyUpEscape ==
  /\ scene3d.keysPressed.escape
  /\ scene3d' = [scene3d EXCEPT !.keysPressed.escape = FALSE, !.escPress = <<>>]
  /\ UNCHANGED <<measureVars, planeVars, mapperVars, segVars, triVars, meshVars,
                 frameVars, viewVars>>

\* measurementResult as the frame loop reads it: the constant of the render
\* in which the effect ran
FrameMeasurementResult(s) == s.closure.measurementResult

\* animate(), the Esc block: with a measurement result the measurement is
\* cleared, without one the selection; the key is consumed
AnimateEscape ==
  /\ scene3d.keysPressed.escape
  /\ IF FrameMeasurementResult(scene3d) # <<>>
     THEN /\ measure' = NewMeasurement
          /\ measureScene' = ClearMeasurement(measureScene, measure)
          /\ sinceClear' = <<>>
          /\ scene3d' = [scene3d EXCEPT !.measurementResult = <<>>,
                                        !.keysPressed.escape = FALSE,
                                        !.escPress = <<>>]
     ELSE /\ scene3d' = [scene3d EXCEPT !.selectedObject = <<>>, !.selectedMesh = 0,
                                        !.keysPressed.escape = FALSE,
                                        !.escPress = <<>>]
          /\ UNCHANGED <<measure, measureScene, sinceClear>>
  /\ UNCHANGED <<lineStamp, planeVars, mapperVars, segVars, triVars, meshVars,
                 frameVars, viewVars>>

NextScene ==
  \/ MouseDown
  \/ MouseMove
  \/ MouseUp
  \/ KeyDownEscape
  \/ KeyUpEscape
  \/ AnimateEscape
SpecScene == InitScene /\ [][NextScene]_vars

\* C26: in cross-section mode, a left click without Shift on a pipe calls
\* createCrossSection with the pipe and the click position, and the call
\* ends without an exception with the grid and the clicked pipe's leader
\* displayed.
C26_ClickDrawsCrossSection ==
  (scene3d.enableCrossSectionMode /\ lastQuery # <<>>)
    => /\ lastQuery[1].clickZ # Null
       /\ scene3d.exception = "none"
       /\ GridLines # {}
       /\ \E l \in ClickedLeaders : l.pipe = lastQuery[1].pipe

\* C27: Esc clears the selection only if no measurement result existed when
\* the key went down; pressed while a result exists it clears the measurement
\* and leaves the selected pipe selected, however the keydown handlers and
\* the frame loop follow each other.
C27_EscClearsOneThing ==
  [][ (scene3d.selectedMesh # 0 /\ scene3d'.selectedMesh = 0)
        => /\ scene3d.escPress # <<>>
           /\ ~scene3d.escPress[1].result ]_vars

\* C30: a left mouse-up ends the drag, with or without Shift, and a step
\* taken with no button down moves no pipe and changes no pipe's record.
C30_MouseUpEndsDrag ==
  [][ /\ (scene3d.leftDown /\ ~scene3d'.leftDown) => ~scene3d'.isDragging
      /\ (~scene3d.leftDown /\ ~scene3d'.leftDown)
           => /\ scene3d'.position = scene3d.position
              /\ scene3d'.objectData = scene3d.objectData ]_vars

====
